---- MODULE Spec2Model ----
(***************************************************************************)
(* gdlibcam: the capture / detection / publish cycle of the AprilTag       *)
(* detector, as a GDExtension (src/src/apriltag_detector.cpp) and as the   *)
(* two standalone programs (src/apriltag_detector.cpp,                     *)
(* src/test_libcamera_debug.cpp).                                          *)
(*                                                                         *)
(* Two threads are modelled: the application thread (`main_pc'), which     *)
(* calls the detector's methods or runs the standalone main, and the       *)
(* camera thread (`cb_pc'), on which libcamera completes requests and runs *)
(* the connected requestComplete callback, one invocation at a time.       *)
(*                                                                         *)
(* libcamera is modelled by the part of its contract the code relies on:   *)
(* a camera is acquired, configured, running or stopping; it accepts a     *)
(* request only while running and only a request it created; it completes  *)
(* queued requests in order; Camera::stop() returns after every queued     *)
(* request was completed as cancelled and no callback is executing.        *)
(***************************************************************************)
EXTENDS Integers, Sequences, FiniteSets, TLC

(***************************************************************************)
(* Bounds of the model.                                                    *)
(***************************************************************************)
\* buffers the allocator hands out for the stream (libcamera typically: 4)
NumBuffers == 2
\* requests the request list may hold when initialize_camera is called again
MaxRequests == 2
\* max_frames of the standalone programs (100 and 30 in the source), scaled
max_frames == 3
\* frames the callback counts for video feedback
MaxVideoFrames == 12
\* updates of one filter
MaxUpdates == 3

(***************************************************************************)
(* Program constants.                                                      *)
(***************************************************************************)
PROCESS_EVERY_N_FRAMES == 1
VIDEO_FRAME_SKIP == 10
\* ALPHA = 0.4, as the fraction AlphaNum / AlphaDen
AlphaNum == 2
AlphaDen == 5
ConfigWidth == 1200
ConfigHeight == 800
DebugWidth == 640
DebugHeight == 400

Programs == {"gdextension", "apriltag_detector", "test_libcamera_debug"}
Standalone == {"apriltag_detector", "test_libcamera_debug"}

VARIABLES
    program,                \* the executable that runs
    toml_file,              \* the parameter file the standalone programs find
    \* ---- MarkerTracker of the demo project
    filter,                 \* its ExponentialMovingAverageFilter3D
    filtered,               \* what the last process_detections returned
    local_coordinates,      \* what the last filter.update was given
    updates,                \* calls of update on the filter in use
    \* ---- AprilTagDetector fields
    is_initialized, camera_matrix, dist_coeffs,
    camera_manager, camera, allocator, requests, camera_running,
    video_feedback_enabled, current_frame, video_frame_resized, frame_mutex,
    \* ---- statics of the translation unit
    latest_detections, detection_mutex, current_instance,
    frame_skip_counter, video_frame_counter,
    \* ---- statics of the standalone programs
    detector, frame_count, exit_code,
    \* ---- libcamera: requests queued at the camera, slots of requestCompleted
    cam_queue, connected,
    \* ---- camera thread: the running requestComplete invocation
    cb_pc, cb_req, cb_status, cb_bytesused, cb_memory, cb_frame, cb_results, cb_i,
    video_count,            \* the local of store_frame_for_video_feedback
    \* ---- application thread
    main_pc, main_op, main_ret, main_i, get_results,
    texture,                \* what the last get_current_frame_texture returned
    \* ---- history (ghost) variables
    lifecycle,              \* "on" from a start_camera that returned true to the next stop_camera
    init_ok,                \* the last initialize_camera returned true
    restart,                \* calls made since the last stop_camera returned
    queued_by_start,        \* queueRequest calls start_camera has made
    teardown,               \* release events of the running teardown, in order
    recent,                 \* what the application did last, where a property asks
    cb_trace,               \* steps of the running callback invocation, in order
    cb_detect_calls,        \* detection runs in the running callback invocation
    bad_read,               \* mapped memory was read while unmapped or requeued
    last_published,         \* the result list of the last frame published
    seen_complete,          \* complete lists latest_detections held during a read
    video_off,              \* set_video_feedback_enabled(false) returned, no enabling call since
    video_gap,              \* frames received with feedback enabled since the last copy
    video_frames,           \* frames store_frame_for_video_feedback has counted
    \* ---- several AprilTagDetector nodes in one process
    instances,              \* every instance: its life, camera_running, requests at its camera
    serving,                \* the requestComplete invocation of a request of theirs
    \* ---- the calibration accessors
    array_arg,              \* the Array passed to the setter in progress
    array_result            \* the Array the last getter returned

detVars   == <<is_initialized, camera_matrix, dist_coeffs>>
camVars   == <<camera_manager, camera, allocator, requests, camera_running>>
videoVars == <<video_feedback_enabled, current_frame, video_frame_resized, video_frame_counter,
               frame_mutex, video_count, texture, video_off, video_gap, video_frames>>
pubVars   == <<latest_detections, detection_mutex, last_published, seen_complete>>
soloVars  == <<detector, frame_count, exit_code>>
libVars   == <<cam_queue, connected>>
cbVars    == <<cb_pc, cb_req, cb_status, cb_bytesused, cb_memory, cb_frame, cb_results, cb_i,
               cb_trace, cb_detect_calls, bad_read>>
mainVars  == <<main_pc, main_op, main_ret, main_i, get_results>>
histVars  == <<lifecycle, init_ok, restart, queued_by_start, teardown, recent>>
trackVars == <<filter, filtered, local_coordinates, updates>>
instVars  == <<instances, serving>>
calibVars == <<array_arg, array_result>>
fixedVars == <<program, current_instance, frame_skip_counter, toml_file, trackVars, instVars,
               calibVars>>

vars == <<detVars, camVars, videoVars, pubVars, soloVars, libVars, cbVars, mainVars,
          histVars, fixedVars>>

(***************************************************************************)
(* Values.                                                                 *)
(***************************************************************************)
NoMat == <<>>
NoFrame == "empty"
\* a parameter file that cannot be opened
NoToml == [exists |-> FALSE, lines |-> <<>>]

\* the AprilTagDetector objects a scene may hold, and one before its constructor ran
DetectorIds == {"first", "second"}
Unborn == [life |-> "unborn", camera_running |-> FALSE, queued |-> 0]
NotServing == [pc |-> "idle", owner |-> "none", processed_by |-> "none", requeued_to |-> "none"]

\* What the camera may see: the marker ids the detector reports, in its order.
Scenes == {<<>>, <<1, 2>>, <<2, 1>>}

\* expected_8bit of the configured stream
Expected8bit(p) ==
    IF p = "test_libcamera_debug" THEN DebugWidth * DebugHeight
    ELSE ConfigWidth * ConfigHeight

Expected16bit(p) == Expected8bit(p) * 2

\* plane.bytesused values a completed buffer may report
BytesUsed(p) == {Expected8bit(p), Expected16bit(p), Expected8bit(p) \div 2}

\* calibration files: a document is a function from keys to values
CalibMatrix == <<<<900, 0, 600>>, <<0, 900, 400>>, <<0, 0, 1>>>>
CalibDist == <<<<1>>, <<2>>, <<3>>, <<4>>>>
JsonFiles == {
    [exists |-> FALSE, parses |-> FALSE, data |-> [other |-> 0]],
    [exists |-> TRUE, parses |-> FALSE, data |-> [other |-> 0]],
    [exists |-> TRUE, parses |-> TRUE, data |-> [other |-> 1]],
    [exists |-> TRUE, parses |-> TRUE,
     data |-> [calibration |-> [camera_matrix |-> CalibMatrix]]],
    [exists |-> TRUE, parses |-> TRUE,
     data |-> [calibration |-> [camera_matrix |-> <<<<900, 0>>, <<0, 900>>>>,
                                dist_coeffs   |-> CalibDist]]],
    [exists |-> TRUE, parses |-> TRUE,
     data |-> [calibration |-> [camera_matrix |-> CalibMatrix,
                                dist_coeffs   |-> <<<<1>>, <<2>>, <<3>>>>]]],
    [exists |-> TRUE, parses |-> TRUE,
     data |-> [calibration |-> [camera_matrix |-> <<<<900, 0, 600>>, <<0, 900>>, <<0, 0, 1>>>>,
                                dist_coeffs   |-> CalibDist]]],
    [exists |-> TRUE, parses |-> TRUE,
     data |-> [calibration |-> [camera_matrix |-> CalibMatrix,
                                dist_coeffs   |-> <<<<1>>, <<2, 5>>, <<3>>, <<4>>>>]]],
    [exists |-> TRUE, parses |-> TRUE,
     data |-> [calibration |-> [camera_matrix |-> CalibMatrix,
                                dist_coeffs   |-> CalibDist]]] }

Has(dict, key) == key \in DOMAIN dict

RECURSIVE Flatten(_)
Flatten(rows) ==
    IF rows = <<>> THEN <<>> ELSE Head(rows) \o Flatten(Tail(rows))

(***************************************************************************)
(* OpenCV, as far as the code uses it.                                     *)
(***************************************************************************)
\* detectMarkers: one id and one quadrilateral per marker of the scene
DetectIds(scene) == scene

CornersOf(id) == <<<<id, 0>>, <<id + 1, 0>>, <<id + 1, 1>>, <<id, 1>>>>

DetectCorners(scene) == [i \in 1..Len(scene) |-> CornersOf(scene[i])]

\* estimatePoseSingleMarkers: one rotation and one translation per quadrilateral
EstimateRvecs(corners) == [i \in 1..Len(corners) |-> <<corners[i][1][1], 0, 1>>]

EstimateTvecs(corners) == [i \in 1..Len(corners) |-> <<0, corners[i][1][1], 5>>]

ZeroVector == <<0, 0, 0>>

(***************************************************************************)
(* AprilTagDetector (GDExtension): pure parts.                             *)
(***************************************************************************)
\* a loader that does not look at the length of the dist_coeffs rows
LoadCameraParameters_lax(file) ==
    LET fail == [ok |-> FALSE, camera_matrix |-> NoMat, dist_coeffs |-> NoMat] IN
    IF ~file.exists \/ ~file.parses THEN fail
    ELSE IF ~Has(file.data, "calibration") THEN fail
    ELSE LET calibration == file.data.calibration IN
         IF ~Has(calibration, "camera_matrix") \/ ~Has(calibration, "dist_coeffs") THEN fail
         ELSE LET cm == calibration.camera_matrix
                  dc == calibration.dist_coeffs
              IN IF Len(cm) # 3 THEN fail
                 ELSE IF \E i \in 1..3 : Len(cm[i]) # 3 THEN fail
                 ELSE IF Len(dc) # 4 THEN fail
                 ELSE [ok |-> TRUE, camera_matrix |-> Flatten(cm),
                       dist_coeffs |-> Flatten(dc)]

\* load_camera_parameters: the values parsed from the file, or a failure
LoadCameraParameters(file) ==
    LET fail == [ok |-> FALSE, camera_matrix |-> NoMat, dist_coeffs |-> NoMat] IN
    IF ~file.exists THEN fail
    ELSE IF ~file.parses THEN fail
    ELSE IF ~Has(file.data, "calibration") THEN fail
    ELSE LET calibration == file.data.calibration IN
         IF ~Has(calibration, "camera_matrix") \/ ~Has(calibration, "dist_coeffs") THEN fail
         ELSE LET cm == calibration.camera_matrix
                  dc == calibration.dist_coeffs
              IN IF Len(cm) # 3 THEN fail
                 ELSE IF \E i \in 1..3 : Len(cm[i]) # 3 THEN fail
                 ELSE IF Len(dc) # 4 THEN fail
                 ELSE IF \E i \in 1..4 : Len(dc[i]) # 1 THEN fail
                 ELSE [ok |-> TRUE, camera_matrix |-> Flatten(cm),
                       dist_coeffs |-> Flatten(dc)]

\* a detection that estimates the pose as soon as is_initialized is set
ProcessFrameForDetection_flag_only(scene, initialized, matrix, dist) ==
    LET ids == DetectIds(scene)
        corners == DetectCorners(scene)
    IN [i \in 1..Len(ids) |->
          [marker_id |-> ids[i],
           rvec |-> IF initialized THEN EstimateRvecs(corners)[i] ELSE ZeroVector,
           tvec |-> IF initialized THEN EstimateTvecs(corners)[i] ELSE ZeroVector,
           corners |-> corners[i]]]

\* process_frame_for_detection: the result list of one frame
ProcessFrameForDetection(scene, initialized, matrix, dist) ==
    LET ids == DetectIds(scene)
        corners == DetectCorners(scene)
        rvecs == EstimateRvecs(corners)
        tvecs == EstimateTvecs(corners)
    IN [i \in 1..Len(ids) |->
          [marker_id |-> ids[i],
           rvec |-> IF initialized /\ matrix # NoMat /\ dist # NoMat
                    THEN rvecs[i] ELSE ZeroVector,
           tvec |-> IF initialized /\ matrix # NoMat /\ dist # NoMat
                    THEN tvecs[i] ELSE ZeroVector,
           corners |-> corners[i]]]

\* a dictionary that hands out the translation as rvec and the rotation as tvec
ToDictionary_swapped(detection) ==
    [id |-> detection.marker_id, rvec |-> detection.tvec,
     tvec |-> detection.rvec, corners |-> detection.corners]

\* get_latest_detections: the dictionary built for one detection
ToDictionary(detection) ==
    [id |-> detection.marker_id, rvec |-> detection.rvec,
     tvec |-> detection.tvec, corners |-> detection.corners]

ToDictionaries(detections) ==
    [i \in 1..Len(detections) |-> ToDictionary(detections[i])]

\* an assignment that keeps the old elements and adds the new ones
AppendElement(dst, src, i) == Append(dst, src[i])

\* std::vector copy assignment, one element at a time
AssignElement(dst, src, i) ==
    IF i <= Len(dst) THEN [dst EXCEPT ![i] = src[i]] ELSE Append(dst, src[i])

(***************************************************************************)
(* libcamera, as far as the code uses it.                                  *)
(***************************************************************************)
\* Camera::queueRequest accepts a request of this camera while it runs
QueueAccepts(cam, queue, inflight, request) ==
    /\ cam = "running"
    /\ ~request.stale
    /\ \A k \in 1..Len(queue) : queue[k] # request.buffer
    /\ inflight # request.buffer

\* the requests of a camera whose manager was replaced are not this camera's
MarkStale(reqs) == [k \in 1..Len(reqs) |-> [reqs[k] EXCEPT !.stale = TRUE]]

NewRequests(n) == [k \in 1..n |-> [buffer |-> k, stale |-> FALSE]]

AllocatedBuffers(alloc) == IF alloc = "allocated" THEN NumBuffers ELSE 0

\* what initialize_camera may meet
InitOutcomes ==
    {[kind |-> k, at |-> 0] : k \in {"ok", "no_cameras", "invalid", "alloc_fail"}}
    \cup {[kind |-> k, at |-> i] : k \in {"create_fail", "add_fail"}, i \in 1..NumBuffers}

(***************************************************************************)
(* MarkerTracker (demo project): the smoothing filter.                     *)
(***************************************************************************)
RECURSIVE Pow(_, _)
Pow(b, n) == IF n = 0 THEN 1 ELSE b * Pow(b, n - 1)

\* coordinates are counted in a unit that AlphaDen divides once per update
Unit == Pow(AlphaDen, MaxUpdates)

Vector3ZERO == <<0, 0, 0>>

\* positions get_local_coordinates may compute
Coordinates == {<<0, 0, 0>>, <<Unit, 0 - 2 * Unit, 3 * Unit>>, <<0 - 4 * Unit, Unit, 0>>,
                <<2 * Unit, 2 * Unit, 0 - Unit>>}

\* ExponentialMovingAverageFilter3D.new(alpha_value)
NewFilter == [initialized |-> FALSE, ema_x |-> 0, ema_y |-> 0, ema_z |-> 0]

\* alpha * new + (1.0 - alpha) * ema
Ema(new, ema) == (AlphaNum * new + (AlphaDen - AlphaNum) * ema) \div AlphaDen

\* a filter step that weighs the axes with the weights exchanged
Update_exchanged(f, new_coords) ==
    IF ~f.initialized
    THEN [initialized |-> TRUE, ema_x |-> new_coords[1], ema_y |-> new_coords[2],
          ema_z |-> new_coords[3]]
    ELSE [initialized |-> TRUE,
          ema_x |-> Ema(f.ema_x, new_coords[1]),
          ema_y |-> Ema(f.ema_y, new_coords[2]),
          ema_z |-> Ema(f.ema_z, new_coords[3])]

\* ExponentialMovingAverageFilter3D.update: the filter it leaves
Update(f, new_coords) ==
    IF ~f.initialized
    THEN [initialized |-> TRUE, ema_x |-> new_coords[1], ema_y |-> new_coords[2],
          ema_z |-> new_coords[3]]
    ELSE [initialized |-> TRUE,
          ema_x |-> Ema(new_coords[1], f.ema_x),
          ema_y |-> Ema(new_coords[2], f.ema_y),
          ema_z |-> Ema(new_coords[3], f.ema_z)]

(***************************************************************************)
(* The state after construction.                                           *)
(***************************************************************************)
InitCommon ==
    /\ filter = NewFilter /\ filtered = Vector3ZERO /\ local_coordinates = Vector3ZERO
    /\ updates = 0
    /\ is_initialized = FALSE /\ camera_matrix = NoMat /\ dist_coeffs = NoMat
    /\ camera_manager = "null" /\ camera = "null" /\ allocator = "null"
    /\ requests = <<>> /\ camera_running = FALSE
    /\ video_feedback_enabled = FALSE /\ current_frame = NoFrame
    /\ video_frame_resized = NoFrame /\ video_frame_counter = 0
    /\ frame_mutex = "free" /\ video_count = 0 /\ texture = "none"
    /\ video_off = FALSE /\ video_gap = VIDEO_FRAME_SKIP - 1 /\ video_frames = 0
    /\ latest_detections = <<>> /\ detection_mutex = "free"
    /\ frame_skip_counter = 0
    /\ instances = [d \in DetectorIds |-> Unborn] /\ serving = NotServing
    /\ array_arg = <<>> /\ array_result = <<>>
    /\ frame_count = 0 /\ exit_code = "none"
    /\ cam_queue = <<>> /\ connected = 0
    /\ cb_pc = "idle" /\ cb_req = 0 /\ cb_status = "none" /\ cb_bytesused = 0
    /\ cb_memory = "unmapped" /\ cb_frame = NoFrame /\ cb_results = <<>> /\ cb_i = 0
    /\ main_ret = TRUE /\ main_i = 0 /\ get_results = <<>>
    /\ lifecycle = "off" /\ init_ok = FALSE /\ restart = "none" /\ queued_by_start = 0
    /\ recent = "none"
    /\ teardown = <<>> /\ cb_trace = <<>> /\ cb_detect_calls = 0 /\ bad_read = FALSE
    /\ last_published = <<>> /\ seen_complete = {}

\* AprilTagDetector::AprilTagDetector has run
InitGDExtension ==
    /\ program = "gdextension"
    /\ toml_file = NoToml
    /\ current_instance = "this"
    /\ detector = "null"
    /\ main_pc = "idle" /\ main_op = "none"
    /\ InitCommon

(***************************************************************************)
(* GDExtension: the methods the application thread calls.                  *)
(***************************************************************************)
Idle == program = "gdextension" /\ main_pc = "idle"

\* bool load_camera_parameters(const String &json_path)
load_camera_parameters ==
    /\ Idle
    /\ \E file \in JsonFiles :
         LET r == LoadCameraParameters(file) IN
         /\ camera_matrix' = IF r.ok THEN r.camera_matrix ELSE camera_matrix
         /\ dist_coeffs' = IF r.ok THEN r.dist_coeffs ELSE dist_coeffs
         /\ is_initialized' = IF r.ok THEN TRUE ELSE is_initialized
         /\ main_ret' = r.ok
    /\ UNCHANGED <<main_pc, main_op, main_i, get_results>>
    /\ UNCHANGED <<camVars, videoVars, pubVars, soloVars, libVars, cbVars, histVars, fixedVars>>

\* the requests initialize_camera has pushed when it meets `outcome'
CreatedRequests(outcome) ==
    IF outcome.kind = "ok" THEN NewRequests(NumBuffers)
    ELSE IF outcome.kind \in {"create_fail", "add_fail"} THEN NewRequests(outcome.at - 1)
    ELSE <<>>

\* an initialize_camera without the `if (camera_running)' test
initialize_camera_unguarded ==
    /\ Idle
    /\ Len(requests) <= MaxRequests
    /\ \E outcome \in InitOutcomes :
         /\ camera_manager' = "started"
         /\ camera' = IF outcome.kind = "no_cameras"
                      THEN (IF camera = "null" THEN "null" ELSE "stale")
                      ELSE IF outcome.kind = "invalid" THEN "acquired"
                      ELSE "configured"
         /\ allocator' = IF outcome.kind \in {"no_cameras", "invalid"} THEN allocator
                         ELSE IF outcome.kind = "alloc_fail" THEN "empty"
                         ELSE "allocated"
         /\ requests' = MarkStale(requests) \o CreatedRequests(outcome)
         /\ connected' = IF outcome.kind = "no_cameras" THEN connected ELSE 0
         /\ main_ret' = (outcome.kind = "ok")
         /\ init_ok' = (outcome.kind = "ok")
         /\ recent' = "none"
         /\ restart' = "none"
         /\ UNCHANGED camera_running
    /\ UNCHANGED <<main_pc, main_op, main_i, get_results>>
    /\ UNCHANGED <<lifecycle, queued_by_start, teardown, cam_queue>>
    /\ UNCHANGED <<detVars, videoVars, pubVars, soloVars, cbVars, fixedVars>>

\* bool initialize_camera()
initialize_camera ==
    /\ Idle
    /\ Len(requests) <= MaxRequests
    /\ \E outcome \in InitOutcomes :
         IF camera_running
         THEN /\ main_ret' = FALSE
              /\ recent' = "init_while_running"
              /\ restart' = IF restart = "stopped" /\ outcome.kind = "ok"
                            THEN "refused" ELSE "none"
              /\ UNCHANGED <<camVars, connected, init_ok>>
         ELSE /\ camera_manager' = "started"
              /\ camera' = IF outcome.kind = "no_cameras"
                           THEN (IF camera = "null" THEN "null" ELSE "stale")
                           ELSE IF outcome.kind = "invalid" THEN "acquired"
                           ELSE "configured"
              /\ allocator' = IF outcome.kind \in {"no_cameras", "invalid"} THEN allocator
                              ELSE IF outcome.kind = "alloc_fail" THEN "empty"
                              ELSE "allocated"
              /\ requests' = MarkStale(requests) \o CreatedRequests(outcome)
              /\ connected' = IF outcome.kind = "no_cameras" THEN connected ELSE 0
              /\ main_ret' = (outcome.kind = "ok")
              /\ init_ok' = (outcome.kind = "ok")
              /\ recent' = "none"
              /\ restart' = IF restart = "stopped" /\ outcome.kind = "ok"
                            THEN (IF main_ret' THEN "initialized" ELSE "refused")
                            ELSE "none"
              /\ UNCHANGED camera_running
    /\ UNCHANGED <<main_pc, main_op, main_i, get_results>>
    /\ UNCHANGED <<lifecycle, queued_by_start, teardown, cam_queue>>
    /\ UNCHANGED <<detVars, videoVars, pubVars, soloVars, cbVars, fixedVars>>

\* start_camera is called
start_camera_call ==
    /\ Idle
    /\ main_pc' = "start_camera"
    /\ main_op' = "start_camera"
    /\ restart' = IF restart = "initialized" THEN "starting" ELSE "none"
    /\ recent' = IF recent = "ran" THEN "again" ELSE "none"
    /\ UNCHANGED <<main_ret, main_i, get_results>>
    /\ UNCHANGED <<lifecycle, init_ok, queued_by_start, teardown>>
    /\ UNCHANGED <<detVars, camVars, videoVars, pubVars, soloVars, libVars, cbVars, fixedVars>>

\* a start_camera that refuses only a missing camera
start_camera_unguarded ==
    /\ program = "gdextension" /\ main_pc = "start_camera"
    /\ IF camera = "null"
       THEN /\ main_ret' = FALSE
            /\ main_pc' = "idle"
            /\ main_op' = "none"
            /\ restart' = IF restart = "starting" THEN "refused" ELSE "none"
            /\ recent' = IF recent = "again" THEN "again_refused" ELSE "none"
            /\ UNCHANGED <<camera, connected, queued_by_start, main_i>>
       ELSE /\ connected' = connected + 1
            /\ camera' = IF camera = "configured" THEN "running" ELSE camera
            /\ main_pc' = "start_queue"
            /\ main_i' = 1
            /\ queued_by_start' = 0
            /\ UNCHANGED <<main_ret, main_op, restart, recent>>
    /\ UNCHANGED <<get_results>>
    /\ UNCHANGED <<camera_manager, allocator, requests, camera_running, cam_queue>>
    /\ UNCHANGED <<lifecycle, init_ok, teardown>>
    /\ UNCHANGED <<detVars, videoVars, pubVars, soloVars, cbVars, fixedVars>>

\* bool start_camera(): the guard, connect and Camera::start
start_camera ==
    /\ program = "gdextension" /\ main_pc = "start_camera"
    /\ IF camera = "null" \/ camera_running
       THEN /\ main_ret' = FALSE
            /\ main_pc' = "idle"
            /\ main_op' = "none"
            /\ restart' = IF restart = "starting" THEN "refused" ELSE "none"
            /\ recent' = IF recent = "again" THEN "again_refused" ELSE "none"
            /\ UNCHANGED <<camera, connected, queued_by_start, main_i>>
       ELSE /\ connected' = connected + 1
            /\ camera' = IF camera = "configured" THEN "running" ELSE camera
            /\ main_pc' = "start_queue"
            /\ main_i' = 1
            /\ queued_by_start' = 0
            /\ UNCHANGED <<main_ret, main_op, restart, recent>>
    /\ UNCHANGED <<get_results>>
    /\ UNCHANGED <<camera_manager, allocator, requests, camera_running, cam_queue>>
    /\ UNCHANGED <<lifecycle, init_ok, teardown>>
    /\ UNCHANGED <<detVars, videoVars, pubVars, soloVars, cbVars, fixedVars>>

\* start_camera: one iteration of `for (request : requests) camera->queueRequest'
start_camera_queue ==
    /\ program = "gdextension" /\ main_pc = "start_queue"
    /\ IF main_i <= Len(requests)
       THEN /\ IF QueueAccepts(camera, cam_queue, cb_req, requests[main_i])
               THEN /\ cam_queue' = Append(cam_queue, requests[main_i].buffer)
                    /\ queued_by_start' = queued_by_start + 1
               ELSE UNCHANGED <<cam_queue, queued_by_start>>
            /\ main_i' = main_i + 1
            /\ UNCHANGED main_pc
       ELSE /\ main_pc' = "start_set"
            /\ main_i' = 0
            /\ UNCHANGED <<cam_queue, queued_by_start>>
    /\ UNCHANGED <<main_op, main_ret, get_results, connected>>
    /\ UNCHANGED <<lifecycle, init_ok, restart, recent, teardown>>
    /\ UNCHANGED <<detVars, camVars, videoVars, pubVars, soloVars, cbVars, fixedVars>>

\* start_camera: `camera_running = true; return true'
start_camera_return ==
    /\ program = "gdextension" /\ main_pc = "start_set"
    /\ camera_running' = TRUE
    /\ main_ret' = TRUE
    /\ main_pc' = "idle"
    /\ main_op' = "none"
    /\ lifecycle' = "on"
    /\ restart' = IF restart = "starting" THEN "started" ELSE "none"
    /\ recent' = IF recent = "again" THEN "again_ok" ELSE "none"
    /\ UNCHANGED <<main_i, get_results>>
    /\ UNCHANGED <<camera_manager, camera, allocator, requests>>
    /\ UNCHANGED <<init_ok, queued_by_start, teardown>>
    /\ UNCHANGED <<detVars, videoVars, pubVars, soloVars, libVars, cbVars, fixedVars>>

\* stop_camera is called, by the application or by ~AprilTagDetector
stop_camera_call ==
    /\ Idle
    /\ main_pc' = "stop_camera"
    /\ \E op \in {"stop_camera", "~AprilTagDetector"} :
         /\ main_op' = op
         /\ recent' = IF lifecycle = "on" /\ op = "stop_camera" THEN "stopping" ELSE "none"
    /\ restart' = "none"
    /\ lifecycle' = "off"
    /\ teardown' = <<>>
    /\ UNCHANGED <<main_ret, main_i, get_results, init_ok, queued_by_start>>
    /\ UNCHANGED <<detVars, camVars, videoVars, pubVars, soloVars, libVars, cbVars, fixedVars>>

\* a stop_camera that does nothing unless the camera is running
stop_camera_only_running ==
    /\ program = "gdextension" /\ main_pc = "stop_camera"
    /\ IF camera_running /\ camera # "null"
       THEN /\ cb_pc = "idle"
            /\ camera' = IF camera = "running" THEN "stopping" ELSE camera
            /\ main_pc' = "stop_wait"
       ELSE /\ main_pc' = "stop_return"
            /\ UNCHANGED camera
    /\ UNCHANGED <<main_op, main_ret, main_i, get_results>>
    /\ UNCHANGED <<camera_manager, allocator, requests, camera_running>>
    /\ UNCHANGED <<detVars, videoVars, pubVars, soloVars, libVars, cbVars, histVars, fixedVars>>

\* stop_camera: `if (camera_running && camera) camera->stop()' is entered;
\* Camera::stop() runs on the camera thread, after the callback in progress
stop_camera ==
    /\ program = "gdextension" /\ main_pc = "stop_camera"
    /\ IF camera_running /\ camera # "null"
       THEN /\ cb_pc = "idle"
            /\ camera' = IF camera = "running" THEN "stopping" ELSE camera
            /\ main_pc' = "stop_wait"
       ELSE /\ main_pc' = "stop_release"
            /\ UNCHANGED camera
    /\ UNCHANGED <<main_op, main_ret, main_i, get_results>>
    /\ UNCHANGED <<camera_manager, allocator, requests, camera_running>>
    /\ UNCHANGED <<detVars, videoVars, pubVars, soloVars, libVars, cbVars, histVars, fixedVars>>

\* a stop_camera that goes on to release the camera without disconnecting
stop_camera_stopped_connected ==
    /\ program = "gdextension" /\ main_pc = "stop_wait"
    /\ cb_pc = "idle" /\ cam_queue = <<>>
    /\ camera' = IF camera = "stopping" THEN "configured" ELSE camera
    /\ camera_running' = FALSE
    /\ teardown' = Append(teardown, "camera_stop")
    /\ main_pc' = "stop_release"
    /\ UNCHANGED <<main_op, main_ret, main_i, get_results>>
    /\ UNCHANGED <<camera_manager, allocator, requests>>
    /\ UNCHANGED <<lifecycle, init_ok, restart, recent, queued_by_start>>
    /\ UNCHANGED <<detVars, videoVars, pubVars, soloVars, libVars, cbVars, fixedVars>>

\* stop_camera: Camera::stop() returns
stop_camera_stopped ==
    /\ program = "gdextension" /\ main_pc = "stop_wait"
    /\ cb_pc = "idle" /\ cam_queue = <<>>
    /\ camera' = IF camera = "stopping" THEN "configured" ELSE camera
    /\ teardown' = Append(teardown, "camera_stop")
    /\ main_pc' = "stop_disconnect"
    /\ UNCHANGED <<main_op, main_ret, main_i, get_results>>
    /\ UNCHANGED <<camera_manager, allocator, requests, camera_running>>
    /\ UNCHANGED <<lifecycle, init_ok, restart, recent, queued_by_start>>
    /\ UNCHANGED <<detVars, videoVars, pubVars, soloVars, libVars, cbVars, fixedVars>>

\* stop_camera: `requestCompleted.disconnect(); camera_running = false'
stop_camera_disconnect ==
    /\ program = "gdextension" /\ main_pc = "stop_disconnect"
    /\ connected' = 0
    /\ camera_running' = FALSE
    /\ teardown' = Append(teardown, "disconnect")
    /\ main_pc' = "stop_release"
    /\ UNCHANGED <<main_op, main_ret, main_i, get_results>>
    /\ UNCHANGED <<camera_manager, camera, allocator, requests, cam_queue>>
    /\ UNCHANGED <<lifecycle, init_ok, restart, recent, queued_by_start>>
    /\ UNCHANGED <<detVars, videoVars, pubVars, soloVars, cbVars, fixedVars>>

\* stop_camera: `if (camera) { camera->release(); camera.reset(); }'
stop_camera_release ==
    /\ program = "gdextension" /\ main_pc = "stop_release"
    /\ IF camera # "null"
       THEN /\ camera' = "null"
            /\ connected' = 0
            /\ teardown' = Append(teardown, "camera_release")
       ELSE UNCHANGED <<camera, connected, teardown>>
    /\ main_pc' = "stop_free"
    /\ UNCHANGED <<main_op, main_ret, main_i, get_results>>
    /\ UNCHANGED <<camera_manager, allocator, requests, camera_running, cam_queue>>
    /\ UNCHANGED <<lifecycle, init_ok, restart, recent, queued_by_start>>
    /\ UNCHANGED <<detVars, videoVars, pubVars, soloVars, cbVars, fixedVars>>

\* a stop_camera that resets the allocator but keeps the request list
stop_camera_free_keep ==
    /\ program = "gdextension" /\ main_pc = "stop_free"
    /\ allocator' = "null"
    /\ teardown' = Append(teardown, "free_allocator")
    /\ main_pc' = "stop_manager"
    /\ UNCHANGED <<main_op, main_ret, main_i, get_results>>
    /\ UNCHANGED <<camera_manager, camera, requests, camera_running>>
    /\ UNCHANGED <<lifecycle, init_ok, restart, recent, queued_by_start>>
    /\ UNCHANGED <<detVars, videoVars, pubVars, soloVars, libVars, cbVars, fixedVars>>

\* stop_camera: `requests.clear(); allocator.reset()'
stop_camera_free ==
    /\ program = "gdextension" /\ main_pc = "stop_free"
    /\ requests' = <<>>
    /\ allocator' = "null"
    /\ teardown' = teardown \o <<"free_requests", "free_allocator">>
    /\ main_pc' = "stop_manager"
    /\ UNCHANGED <<main_op, main_ret, main_i, get_results>>
    /\ UNCHANGED <<camera_manager, camera, camera_running>>
    /\ UNCHANGED <<lifecycle, init_ok, restart, recent, queued_by_start>>
    /\ UNCHANGED <<detVars, videoVars, pubVars, soloVars, libVars, cbVars, fixedVars>>

\* stop_camera: `if (camera_manager) { camera_manager->stop(); camera_manager.reset(); }'
stop_camera_manager ==
    /\ program = "gdextension" /\ main_pc = "stop_manager"
    /\ IF camera_manager # "null"
       THEN /\ camera_manager' = "null"
            /\ teardown' = Append(teardown, "manager_stop")
       ELSE UNCHANGED <<camera_manager, teardown>>
    /\ main_pc' = "stop_return"
    /\ UNCHANGED <<main_op, main_ret, main_i, get_results>>
    /\ UNCHANGED <<camera, allocator, requests, camera_running>>
    /\ UNCHANGED <<lifecycle, init_ok, restart, recent, queued_by_start>>
    /\ UNCHANGED <<detVars, videoVars, pubVars, soloVars, libVars, cbVars, fixedVars>>

\* stop_camera returns; after the destructor the object is gone
stop_camera_return ==
    /\ program = "gdextension" /\ main_pc = "stop_return"
    /\ main_pc' = IF main_op = "~AprilTagDetector" THEN "destroyed" ELSE "idle"
    /\ restart' = IF main_op = "~AprilTagDetector" THEN "none" ELSE "stopped"
    /\ recent' = IF recent = "stopping" THEN "ran" ELSE "none"
    /\ teardown' = <<>>
    /\ main_op' = "none"
    /\ UNCHANGED <<main_ret, main_i, get_results>>
    /\ UNCHANGED <<lifecycle, init_ok, queued_by_start>>
    /\ UNCHANGED <<detVars, camVars, videoVars, pubVars, soloVars, libVars, cbVars, fixedVars>>

\* get_latest_detections is called
get_latest_detections_call ==
    /\ Idle
    /\ main_pc' = "get_lock"
    /\ main_op' = "get_latest_detections"
    /\ get_results' = <<>>
    /\ UNCHANGED <<main_ret, main_i>>
    /\ UNCHANGED <<detVars, camVars, videoVars, pubVars, soloVars, libVars, cbVars, histVars, fixedVars>>

\* a reader that enters its copy loop without taking detection_mutex
get_latest_detections_unlocked ==
    /\ program = "gdextension" /\ main_pc = "get_lock"
    /\ main_pc' = "get_copy"
    /\ main_i' = 1
    /\ seen_complete' = {last_published}
    /\ UNCHANGED <<main_op, main_ret, get_results>>
    /\ UNCHANGED <<latest_detections, detection_mutex, last_published>>
    /\ UNCHANGED <<detVars, camVars, videoVars, soloVars, libVars, cbVars, histVars, fixedVars>>

\* get_latest_detections: `std::lock_guard<std::mutex> lock(detection_mutex)'
get_latest_detections_lock ==
    /\ program = "gdextension" /\ main_pc = "get_lock"
    /\ detection_mutex = "free"
    /\ detection_mutex' = "main"
    /\ main_pc' = "get_copy"
    /\ main_i' = 1
    /\ seen_complete' = {last_published}
    /\ UNCHANGED <<main_op, main_ret, get_results>>
    /\ UNCHANGED <<latest_detections, last_published>>
    /\ UNCHANGED <<detVars, camVars, videoVars, soloVars, libVars, cbVars, histVars, fixedVars>>

\* get_latest_detections: one iteration of `for (detection : latest_detections)'
get_latest_detections_copy ==
    /\ program = "gdextension" /\ main_pc = "get_copy"
    /\ IF main_i <= Len(latest_detections)
       THEN /\ get_results' = Append(get_results, ToDictionary(latest_detections[main_i]))
            /\ main_i' = main_i + 1
            /\ UNCHANGED main_pc
       ELSE /\ main_pc' = "get_return"
            /\ main_i' = 0
            /\ UNCHANGED get_results
    /\ UNCHANGED <<main_op, main_ret>>
    /\ UNCHANGED <<detVars, camVars, videoVars, pubVars, soloVars, libVars, cbVars, histVars, fixedVars>>

\* get_latest_detections: `return results', which releases the lock
get_latest_detections_return ==
    /\ program = "gdextension" /\ main_pc = "get_return"
    /\ detection_mutex' = IF detection_mutex = "main" THEN "free" ELSE detection_mutex
    /\ main_pc' = "idle"
    /\ main_op' = "none"
    /\ get_results' = <<>>
    /\ seen_complete' = {}
    /\ UNCHANGED <<main_ret, main_i>>
    /\ UNCHANGED <<latest_detections, last_published>>
    /\ UNCHANGED <<detVars, camVars, videoVars, soloVars, libVars, cbVars, histVars, fixedVars>>

(***************************************************************************)
(* libcamera's camera thread.                                              *)
(***************************************************************************)
\* the camera completes the oldest queued request and emits requestCompleted
CameraCompletesRequest ==
    /\ camera = "running" /\ cam_queue # <<>> /\ cb_pc = "idle"
    /\ cam_queue' = Tail(cam_queue)
    /\ IF connected > 0
       THEN /\ cb_pc' = "entry"
            /\ cb_req' = Head(cam_queue)
            /\ cb_status' = "complete"
            /\ \E b \in BytesUsed(program) : cb_bytesused' = b
       ELSE UNCHANGED <<cb_pc, cb_req, cb_status, cb_bytesused>>
    /\ UNCHANGED <<cb_memory, cb_frame, cb_results, cb_i, cb_trace, cb_detect_calls, bad_read>>
    /\ UNCHANGED connected
    /\ UNCHANGED <<detVars, camVars, videoVars, pubVars, soloVars, mainVars, histVars, fixedVars>>

\* Camera::stop() completes the oldest queued request as cancelled
CameraCancelsRequest ==
    /\ camera = "stopping" /\ cam_queue # <<>> /\ cb_pc = "idle"
    /\ cam_queue' = Tail(cam_queue)
    /\ IF connected > 0
       THEN /\ cb_pc' = "entry"
            /\ cb_req' = Head(cam_queue)
            /\ cb_status' = "cancelled"
       ELSE UNCHANGED <<cb_pc, cb_req, cb_status>>
    /\ UNCHANGED <<cb_bytesused, cb_memory, cb_frame, cb_results, cb_i, cb_trace,
                   cb_detect_calls, bad_read>>
    /\ UNCHANGED connected
    /\ UNCHANGED <<detVars, camVars, videoVars, pubVars, soloVars, mainVars, histVars, fixedVars>>

\* a read of the mapped plane: wrong once unmapped or once the request is queued again
ReadsMemory(flag) ==
    flag \/ cb_memory # "mapped" \/ (\E k \in 1..Len(cam_queue) : cam_queue[k] = cb_req)

\* the frame aliases the mapped plane (8-bit) or is a converted copy (16-bit)
FrameReads(flag) == IF cb_frame = "view" THEN ReadsMemory(flag) ELSE flag

(***************************************************************************)
(* GDExtension: video feedback, called on the application thread.          *)
(***************************************************************************)
\* void set_video_feedback_enabled(bool enabled): `video_feedback_enabled = enabled;
\* if (!enabled)'
set_video_feedback_enabled ==
    /\ Idle
    /\ \E enabled \in BOOLEAN :
         /\ video_feedback_enabled' = enabled
         /\ main_pc' = IF enabled THEN "video_return" ELSE "video_lock"
         /\ video_off' = IF enabled THEN FALSE ELSE video_off
    /\ main_op' = "set_video_feedback_enabled"
    /\ UNCHANGED <<main_ret, main_i, get_results>>
    /\ UNCHANGED <<current_frame, video_frame_resized, video_frame_counter, frame_mutex,
                   video_count, texture, video_gap, video_frames>>
    /\ UNCHANGED <<detVars, camVars, pubVars, soloVars, libVars, cbVars, histVars, fixedVars>>

\* `std::lock_guard<std::mutex> lock(frame_mutex)' of set_video_feedback_enabled
set_video_feedback_enabled_lock ==
    /\ program = "gdextension" /\ main_pc = "video_lock"
    /\ frame_mutex = "free"
    /\ frame_mutex' = "main"
    /\ main_pc' = "video_release"
    /\ UNCHANGED <<main_op, main_ret, main_i, get_results>>
    /\ UNCHANGED <<video_feedback_enabled, current_frame, video_frame_resized,
                   video_frame_counter, video_count, texture, video_off, video_gap, video_frames>>
    /\ UNCHANGED <<detVars, camVars, pubVars, soloVars, libVars, cbVars, histVars, fixedVars>>

\* `current_frame.release(); video_frame_resized.release();' and the end of the lock's scope
set_video_feedback_enabled_release ==
    /\ program = "gdextension" /\ main_pc = "video_release"
    /\ current_frame' = NoFrame
    /\ video_frame_resized' = NoFrame
    /\ frame_mutex' = "free"
    /\ main_pc' = "video_return"
    /\ UNCHANGED <<main_op, main_ret, main_i, get_results>>
    /\ UNCHANGED <<video_feedback_enabled, video_frame_counter, video_count, texture,
                   video_off, video_gap, video_frames>>
    /\ UNCHANGED <<detVars, camVars, pubVars, soloVars, libVars, cbVars, histVars, fixedVars>>

\* set_video_feedback_enabled returns
set_video_feedback_enabled_return ==
    /\ program = "gdextension" /\ main_pc = "video_return"
    /\ video_off' = ~video_feedback_enabled
    /\ main_pc' = "idle"
    /\ main_op' = "none"
    /\ UNCHANGED <<main_ret, main_i, get_results>>
    /\ UNCHANGED <<video_feedback_enabled, current_frame, video_frame_resized,
                   video_frame_counter, frame_mutex, video_count, texture, video_gap, video_frames>>
    /\ UNCHANGED <<detVars, camVars, pubVars, soloVars, libVars, cbVars, histVars, fixedVars>>

\* Ref<ImageTexture> get_current_frame_texture(): the whole body runs under frame_mutex
get_current_frame_texture ==
    /\ Idle
    /\ frame_mutex = "free"
    /\ texture' = IF video_frame_resized = NoFrame THEN "null" ELSE "cached_texture"
    /\ UNCHANGED mainVars
    /\ UNCHANGED <<video_feedback_enabled, current_frame, video_frame_resized,
                   video_frame_counter, frame_mutex, video_count, video_off, video_gap, video_frames>>
    /\ UNCHANGED <<detVars, camVars, pubVars, soloVars, libVars, cbVars, histVars, fixedVars>>

(***************************************************************************)
(* GDExtension: static void requestComplete(Request *request).             *)
(***************************************************************************)
InCallback(pc) == program = "gdextension" /\ cb_pc = pc

\* `if (request->status() == Request::RequestCancelled) return;'
requestComplete ==
    /\ InCallback("entry")
    /\ IF cb_status = "cancelled"
       THEN /\ cb_pc' = "idle" /\ cb_req' = 0 /\ cb_status' = "none"
       ELSE /\ cb_pc' = "mmap" /\ UNCHANGED <<cb_req, cb_status>>
    /\ cb_trace' = <<>>
    /\ cb_detect_calls' = 0
    /\ UNCHANGED <<cb_bytesused, cb_memory, cb_frame, cb_results, cb_i, bad_read>>
    /\ UNCHANGED <<detVars, camVars, videoVars, pubVars, soloVars, libVars, mainVars,
                   histVars, fixedVars>>

\* `void *memory = mmap(...); if (memory != MAP_FAILED)'
requestComplete_mmap ==
    /\ InCallback("mmap")
    /\ \E ok \in BOOLEAN :
         IF ok
         THEN /\ cb_memory' = "mapped"
              /\ cb_trace' = Append(cb_trace, "map")
              /\ cb_pc' = "frame"
         ELSE /\ cb_pc' = "reuse"
              /\ UNCHANGED <<cb_memory, cb_trace>>
    /\ UNCHANGED <<cb_req, cb_status, cb_bytesused, cb_frame, cb_results, cb_i,
                   cb_detect_calls, bad_read>>
    /\ UNCHANGED <<detVars, camVars, videoVars, pubVars, soloVars, libVars, mainVars,
                   histVars, fixedVars>>

\* a frame step that leaves frames converted from 16-bit data undetected
requestComplete_frame_skip16 ==
    /\ InCallback("frame")
    /\ cb_frame' = IF cb_bytesused = Expected8bit(program) THEN "view"
                   ELSE IF cb_bytesused = Expected16bit(program) THEN "converted"
                   ELSE NoFrame
    /\ bad_read' = IF cb_bytesused = Expected16bit(program) THEN ReadsMemory(bad_read)
                   ELSE bad_read
    /\ cb_trace' = IF cb_frame' # NoFrame THEN Append(cb_trace, "frame") ELSE cb_trace
    /\ cb_pc' = IF cb_frame' = "view" /\ current_instance # "null" THEN "store" ELSE "munmap"
    /\ UNCHANGED <<cb_req, cb_status, cb_bytesused, cb_memory, cb_results, cb_i, cb_detect_calls>>
    /\ UNCHANGED <<detVars, camVars, videoVars, pubVars, soloVars, libVars, mainVars,
                   histVars, fixedVars>>

\* the cv::Mat built from plane.bytesused, and `if (!frame.empty() && current_instance)'
requestComplete_frame ==
    /\ InCallback("frame")
    /\ cb_frame' = IF cb_bytesused = Expected8bit(program) THEN "view"
                   ELSE IF cb_bytesused = Expected16bit(program) THEN "converted"
                   ELSE NoFrame
    /\ bad_read' = IF cb_bytesused = Expected16bit(program) THEN ReadsMemory(bad_read)
                   ELSE bad_read
    /\ cb_trace' = IF cb_frame' # NoFrame THEN Append(cb_trace, "frame") ELSE cb_trace
    /\ cb_pc' = IF cb_frame' # NoFrame /\ current_instance # "null" THEN "store" ELSE "munmap"
    /\ UNCHANGED <<cb_req, cb_status, cb_bytesused, cb_memory, cb_results, cb_i, cb_detect_calls>>
    /\ UNCHANGED <<detVars, camVars, videoVars, pubVars, soloVars, libVars, mainVars,
                   histVars, fixedVars>>

\* the value fetch_add(1) leaves in a std::atomic<int>: it wraps at INT_MAX
FetchAdd(n) == IF n = 2147483647 THEN (0 - 2147483647) - 1 ELSE n + 1

\* a % b of C, which truncates towards zero
CRem(a, b) == IF a >= 0 \/ a % b = 0 THEN a % b ELSE (a % b) - b

\* instance->store_frame_for_video_feedback(frame):
\* `if (video_feedback_enabled) { int video_count = video_frame_counter.fetch_add(1);
\*  if (video_count % VIDEO_FRAME_SKIP == 0)'
store_frame_for_video_feedback ==
    /\ InCallback("store")
    /\ video_feedback_enabled => video_frames < MaxVideoFrames
    /\ IF video_feedback_enabled
       THEN /\ video_count' = video_frame_counter
            /\ video_frame_counter' = FetchAdd(video_frame_counter)
            /\ video_frames' = video_frames + 1
            /\ video_gap' = IF CRem(video_count', VIDEO_FRAME_SKIP) = 0 THEN 0
                            ELSE video_gap + 1
            /\ cb_pc' = IF CRem(video_count', VIDEO_FRAME_SKIP) = 0 THEN "store_lock"
                        ELSE "detect"
       ELSE /\ cb_pc' = "detect"
            /\ UNCHANGED <<video_frame_counter, video_count, video_gap, video_frames>>
    /\ UNCHANGED <<cb_req, cb_status, cb_bytesused, cb_memory, cb_frame, cb_results, cb_i,
                   cb_trace, cb_detect_calls, bad_read>>
    /\ UNCHANGED <<video_feedback_enabled, current_frame, video_frame_resized, frame_mutex,
                   texture, video_off>>
    /\ UNCHANGED <<detVars, camVars, pubVars, soloVars, libVars, mainVars, histVars, fixedVars>>

\* `std::lock_guard<std::mutex> lock(frame_mutex)' of store_frame_for_video_feedback
store_frame_lock ==
    /\ InCallback("store_lock")
    /\ frame_mutex = "free"
    /\ frame_mutex' = "callback"
    /\ cb_pc' = "store_copy"
    /\ UNCHANGED <<cb_req, cb_status, cb_bytesused, cb_memory, cb_frame, cb_results, cb_i,
                   cb_trace, cb_detect_calls, bad_read>>
    /\ UNCHANGED <<video_feedback_enabled, current_frame, video_frame_resized,
                   video_frame_counter, video_count, texture, video_off, video_gap, video_frames>>
    /\ UNCHANGED <<detVars, camVars, pubVars, soloVars, libVars, mainVars, histVars, fixedVars>>

\* `current_frame = frame.clone(); cv::resize(frame, video_frame_resized, ...)' and the
\* end of the lock's scope
store_frame_copy ==
    /\ InCallback("store_copy")
    /\ current_frame' = "copy"
    /\ video_frame_resized' = "resized"
    /\ bad_read' = FrameReads(bad_read)
    /\ frame_mutex' = "free"
    /\ cb_pc' = "detect"
    /\ UNCHANGED <<cb_req, cb_status, cb_bytesused, cb_memory, cb_frame, cb_results, cb_i,
                   cb_trace, cb_detect_calls>>
    /\ UNCHANGED <<video_feedback_enabled, video_frame_counter, video_count, texture,
                   video_off, video_gap, video_frames>>
    /\ UNCHANGED <<detVars, camVars, pubVars, soloVars, libVars, mainVars, histVars, fixedVars>>

\* instance->process_frame_for_detection(frame, results)
process_frame_for_detection ==
    /\ InCallback("detect")
    /\ \E scene \in Scenes :
         cb_results' = ProcessFrameForDetection(scene, is_initialized, camera_matrix, dist_coeffs)
    /\ bad_read' = FrameReads(bad_read)
    /\ cb_detect_calls' = cb_detect_calls + 1
    /\ cb_trace' = Append(cb_trace, "detect")
    /\ cb_pc' = "lock"
    /\ UNCHANGED <<cb_req, cb_status, cb_bytesused, cb_memory, cb_frame, cb_i>>
    /\ UNCHANGED <<detVars, camVars, videoVars, pubVars, soloVars, libVars, mainVars,
                   histVars, fixedVars>>

\* `std::lock_guard<std::mutex> lock(detection_mutex)'
requestComplete_lock ==
    /\ InCallback("lock")
    /\ detection_mutex = "free"
    /\ detection_mutex' = "callback"
    /\ cb_pc' = "assign"
    /\ cb_i' = 1
    /\ UNCHANGED <<cb_req, cb_status, cb_bytesused, cb_memory, cb_frame, cb_results,
                   cb_trace, cb_detect_calls, bad_read>>
    /\ UNCHANGED <<latest_detections, last_published, seen_complete>>
    /\ UNCHANGED <<detVars, camVars, videoVars, soloVars, libVars, mainVars, histVars, fixedVars>>

\* `latest_detections = results', element by element, then the new size
requestComplete_assign ==
    /\ InCallback("assign")
    /\ IF cb_i <= Len(cb_results)
       THEN /\ latest_detections' = AssignElement(latest_detections, cb_results, cb_i)
            /\ cb_i' = cb_i + 1
            /\ UNCHANGED <<cb_pc, cb_trace, last_published, seen_complete>>
       ELSE /\ latest_detections' = SubSeq(latest_detections, 1, Len(cb_results))
            /\ cb_i' = 0
            /\ cb_pc' = "unlock"
            /\ cb_trace' = Append(cb_trace, "publish")
            /\ last_published' = cb_results
            /\ seen_complete' = IF main_pc \in {"get_copy", "get_return"}
                                THEN seen_complete \cup {cb_results} ELSE seen_complete
    /\ UNCHANGED <<cb_req, cb_status, cb_bytesused, cb_memory, cb_frame, cb_results,
                   cb_detect_calls, bad_read>>
    /\ UNCHANGED detection_mutex
    /\ UNCHANGED <<detVars, camVars, videoVars, soloVars, libVars, mainVars, histVars, fixedVars>>

\* the end of the `if' block releases the lock
requestComplete_unlock ==
    /\ InCallback("unlock")
    /\ detection_mutex' = IF detection_mutex = "callback" THEN "free" ELSE detection_mutex
    /\ cb_pc' = "munmap"
    /\ UNCHANGED <<cb_req, cb_status, cb_bytesused, cb_memory, cb_frame, cb_results, cb_i,
                   cb_trace, cb_detect_calls, bad_read>>
    /\ UNCHANGED <<latest_detections, last_published, seen_complete>>
    /\ UNCHANGED <<detVars, camVars, videoVars, soloVars, libVars, mainVars, histVars, fixedVars>>

\* a callback that goes on to reuse the request without unmapping the plane
requestComplete_munmap_leak ==
    /\ InCallback("munmap")
    /\ cb_pc' = "reuse"
    /\ UNCHANGED <<cb_req, cb_status, cb_bytesused, cb_memory, cb_frame, cb_results, cb_i,
                   cb_trace, cb_detect_calls, bad_read>>
    /\ UNCHANGED <<detVars, camVars, videoVars, pubVars, soloVars, libVars, mainVars,
                   histVars, fixedVars>>

\* `munmap(memory, plane.bytesused)'
requestComplete_munmap ==
    /\ InCallback("munmap")
    /\ cb_memory' = "unmapped"
    /\ cb_trace' = Append(cb_trace, "unmap")
    /\ cb_pc' = "reuse"
    /\ UNCHANGED <<cb_req, cb_status, cb_bytesused, cb_frame, cb_results, cb_i,
                   cb_detect_calls, bad_read>>
    /\ UNCHANGED <<detVars, camVars, videoVars, pubVars, soloVars, libVars, mainVars,
                   histVars, fixedVars>>

\* `request->reuse(Request::ReuseBuffers)'
requestComplete_reuse ==
    /\ InCallback("reuse")
    /\ cb_trace' = Append(cb_trace, "reuse")
    /\ cb_pc' = "requeue"
    /\ UNCHANGED <<cb_req, cb_status, cb_bytesused, cb_memory, cb_frame, cb_results, cb_i,
                   cb_detect_calls, bad_read>>
    /\ UNCHANGED <<detVars, camVars, videoVars, pubVars, soloVars, libVars, mainVars,
                   histVars, fixedVars>>

\* `if (current_instance) current_instance->requeue_request(request)', with
\* requeue_request: `if (camera && camera_running) camera->queueRequest(request)'
requeue_request ==
    /\ InCallback("requeue")
    /\ IF /\ current_instance # "null"
          /\ camera # "null" /\ camera_running
          /\ QueueAccepts(camera, cam_queue, 0, [buffer |-> cb_req, stale |-> FALSE])
       THEN /\ cam_queue' = Append(cam_queue, cb_req)
            /\ cb_trace' = Append(cb_trace, "requeue")
       ELSE UNCHANGED <<cam_queue, cb_trace>>
    /\ cb_pc' = "return"
    /\ UNCHANGED <<cb_req, cb_status, cb_bytesused, cb_memory, cb_frame, cb_results, cb_i,
                   cb_detect_calls, bad_read>>
    /\ UNCHANGED connected
    /\ UNCHANGED <<detVars, camVars, videoVars, pubVars, soloVars, mainVars, histVars, fixedVars>>

\* the callback returns to the camera thread's event loop
requestComplete_return ==
    /\ InCallback("return")
    /\ cb_pc' = "idle" /\ cb_req' = 0 /\ cb_status' = "none" /\ cb_bytesused' = 0
    /\ cb_frame' = NoFrame /\ cb_results' = <<>> /\ cb_trace' = <<>> /\ cb_detect_calls' = 0
    /\ UNCHANGED <<cb_memory, cb_i, bad_read>>
    /\ UNCHANGED <<detVars, camVars, videoVars, pubVars, soloVars, libVars, mainVars,
                   histVars, fixedVars>>

(***************************************************************************)
(* The standalone programs: AprilTagDetector.                              *)
(***************************************************************************)
\* parameter files: a line names a key or none, and holds some numbers
\* a line of the file: the key it names ("none" for a line that continues the array
\* above it, "other" for any other line) and how many numbers the regex finds on it
TomlLine(key, n) == [key |-> key, numbers |-> n]

TomlFiles == {
    NoToml,
    [exists |-> TRUE, lines |-> <<TomlLine("camera_matrix", 9), TomlLine("dist_coeffs", 4)>>],
    [exists |-> TRUE, lines |-> <<TomlLine("other", 1), TomlLine("dist_coeffs", 0),
                                  TomlLine("none", 4), TomlLine("camera_matrix", 3),
                                  TomlLine("none", 6)>>],
    [exists |-> TRUE, lines |-> <<TomlLine("camera_matrix", 8), TomlLine("dist_coeffs", 4)>>],
    [exists |-> TRUE, lines |-> <<TomlLine("camera_matrix", 9), TomlLine("dist_coeffs", 4),
                                  TomlLine("none", 1)>>],
    [exists |-> TRUE, lines |-> <<TomlLine("camera_matrix", 9), TomlLine("dist_coeffs", 4),
                                  TomlLine("other", 1)>>],
    [exists |-> TRUE, lines |-> <<TomlLine("camera_matrix", 8), TomlLine("other", 1),
                                  TomlLine("dist_coeffs", 4)>>] }

\* the while (std::getline) loop: the numbers collected for each key
RECURSIVE ReadToml(_, _, _, _)
ReadToml(lines, reading, n_matrix, n_dist) ==
    IF lines = <<>> THEN [camera_matrix_data |-> n_matrix, dist_coeffs_data |-> n_dist]
    ELSE LET line == Head(lines)
             mode == IF line.key = "camera_matrix" THEN "camera_matrix"
                     ELSE IF line.key = "dist_coeffs" THEN "dist_coeffs"
                     ELSE reading
         IN ReadToml(Tail(lines), mode,
                     IF mode = "camera_matrix" THEN n_matrix + line.numbers ELSE n_matrix,
                     IF mode = "dist_coeffs" THEN n_dist + line.numbers ELSE n_dist)

\* bool load_camera_parameters(const std::string& toml_path)
LoadCameraParametersToml(file) ==
    IF ~file.exists THEN FALSE
    ELSE LET r == ReadToml(file.lines, "none", 0, 0)
         IN ~(r.camera_matrix_data # 9 \/ r.dist_coeffs_data # 4)

\* detection runs per processed frame: the debug program tries both orientations
DetectionsPerFrame(p) == IF p = "test_libcamera_debug" THEN 2 ELSE 1

InitStandalone ==
    /\ program \in Standalone
    /\ toml_file \in TomlFiles
    /\ current_instance = "null"
    /\ detector = "null"
    /\ main_pc = "main" /\ main_op = "main"
    /\ InitCommon

InMain(pc) == program \in Standalone /\ main_pc = pc

\* a failure exit of main: what it releases, then `return EXIT_FAILURE'
ExitFailure(released) ==
    /\ teardown' = released
    /\ exit_code' = "EXIT_FAILURE"
    /\ main_pc' = "exited"

\* `detector = new AprilTagDetector(...); if (!detector->load_camera_parameters(...))'
main ==
    /\ InMain("main")
    /\ IF LoadCameraParametersToml(toml_file)
       THEN /\ detector' = "alive"
            /\ is_initialized' = TRUE
            /\ camera_matrix' = Flatten(CalibMatrix)
            /\ dist_coeffs' = Flatten(CalibDist)
            /\ main_pc' = "main_manager"
            /\ UNCHANGED <<teardown, exit_code>>
       ELSE /\ detector' = "deleted"
            /\ ExitFailure(<<"delete_detector">>)
            /\ UNCHANGED detVars
    /\ UNCHANGED <<main_op, main_ret, main_i, get_results, frame_count>>
    /\ UNCHANGED <<lifecycle, init_ok, restart, recent, queued_by_start>>
    /\ UNCHANGED <<camVars, videoVars, pubVars, libVars, cbVars, fixedVars>>

\* `cm->start(); if (cameras.empty())'; `camera = cm->get(cameraId); camera->acquire()'
main_manager ==
    /\ InMain("main_manager")
    /\ \E found \in BOOLEAN :
         IF found
         THEN /\ camera_manager' = "started"
              /\ camera' = "acquired"
              /\ main_pc' = "main_configure"
              /\ UNCHANGED <<detector, teardown, exit_code>>
         ELSE /\ camera_manager' = "stopped"
              /\ detector' = "deleted"
              /\ ExitFailure(<<"manager_stop", "delete_detector">>)
              /\ UNCHANGED camera
    /\ UNCHANGED <<allocator, requests, camera_running, frame_count>>
    /\ UNCHANGED <<main_op, main_ret, main_i, get_results>>
    /\ UNCHANGED <<lifecycle, init_ok, restart, recent, queued_by_start>>
    /\ UNCHANGED <<detVars, videoVars, pubVars, libVars, cbVars, fixedVars>>

\* `config->validate()'; `camera->configure(config.get())'
main_configure ==
    /\ InMain("main_configure")
    /\ \E valid \in BOOLEAN :
         IF valid
         THEN /\ camera' = "configured"
              /\ main_pc' = "main_allocate"
              /\ UNCHANGED <<camera_manager, detector, teardown, exit_code>>
         ELSE /\ camera' = "released"
              /\ camera_manager' = "stopped"
              /\ detector' = "deleted"
              /\ ExitFailure(<<"camera_release", "manager_stop", "delete_detector">>)
    /\ UNCHANGED <<allocator, requests, camera_running, frame_count>>
    /\ UNCHANGED <<main_op, main_ret, main_i, get_results>>
    /\ UNCHANGED <<lifecycle, init_ok, restart, recent, queued_by_start>>
    /\ UNCHANGED <<detVars, videoVars, pubVars, libVars, cbVars, fixedVars>>

\* an allocation failure that returns without `delete allocator'
main_allocate_leak ==
    /\ InMain("main_allocate")
    /\ \E allocated \in BOOLEAN :
         IF allocated
         THEN /\ allocator' = "allocated"
              /\ main_pc' = "main_requests"
              /\ UNCHANGED <<camera, camera_manager, detector, teardown, exit_code>>
         ELSE /\ allocator' = "allocated"
              /\ camera' = "released"
              /\ camera_manager' = "stopped"
              /\ detector' = "deleted"
              /\ ExitFailure(<<"camera_release", "manager_stop", "delete_detector">>)
    /\ UNCHANGED <<requests, camera_running, frame_count>>
    /\ UNCHANGED <<main_op, main_ret, main_i, get_results>>
    /\ UNCHANGED <<lifecycle, init_ok, restart, recent, queued_by_start>>
    /\ UNCHANGED <<detVars, videoVars, pubVars, libVars, cbVars, fixedVars>>

\* `allocator = new FrameBufferAllocator(camera)' and the allocate loop
main_allocate ==
    /\ InMain("main_allocate")
    /\ \E allocated \in BOOLEAN :
         IF allocated
         THEN /\ allocator' = "allocated"
              /\ main_pc' = "main_requests"
              /\ UNCHANGED <<camera, camera_manager, detector, teardown, exit_code>>
         ELSE /\ allocator' = "null"
              /\ camera' = "released"
              /\ camera_manager' = "stopped"
              /\ detector' = "deleted"
              /\ ExitFailure(<<"free_allocator", "camera_release", "manager_stop",
                               "delete_detector">>)
    /\ UNCHANGED <<requests, camera_running, frame_count>>
    /\ UNCHANGED <<main_op, main_ret, main_i, get_results>>
    /\ UNCHANGED <<lifecycle, init_ok, restart, recent, queued_by_start>>
    /\ UNCHANGED <<detVars, videoVars, pubVars, libVars, cbVars, fixedVars>>

\* the loop that creates one request per buffer; `requests' dies when main returns
main_requests ==
    /\ InMain("main_requests")
    /\ \E outcome \in {o \in InitOutcomes : o.kind \in {"ok", "create_fail", "add_fail"}} :
         IF outcome.kind = "ok"
         THEN /\ requests' = NewRequests(NumBuffers)
              /\ main_pc' = "main_start"
              /\ UNCHANGED <<allocator, camera, camera_manager, detector, teardown, exit_code>>
         ELSE /\ requests' = <<>>
              /\ allocator' = "null"
              /\ camera' = "released"
              /\ camera_manager' = "stopped"
              /\ detector' = "deleted"
              /\ ExitFailure(<<"free_allocator", "camera_release", "manager_stop",
                               "delete_detector", "free_requests">>)
    /\ UNCHANGED <<camera_running, frame_count>>
    /\ UNCHANGED <<main_op, main_ret, main_i, get_results>>
    /\ UNCHANGED <<lifecycle, init_ok, restart, recent, queued_by_start>>
    /\ UNCHANGED <<detVars, videoVars, pubVars, libVars, cbVars, fixedVars>>

\* `camera->requestCompleted.connect(requestComplete); camera->start()'
main_start ==
    /\ InMain("main_start")
    /\ connected' = connected + 1
    /\ camera' = "running"
    /\ main_pc' = "main_queue"
    /\ main_i' = 1
    /\ UNCHANGED <<camera_manager, allocator, requests, camera_running, cam_queue>>
    /\ UNCHANGED <<main_op, main_ret, get_results>>
    /\ UNCHANGED <<detVars, videoVars, pubVars, soloVars, cbVars, histVars, fixedVars>>

\* one iteration of `for (request : requests) camera->queueRequest(request.get())'
main_queue ==
    /\ InMain("main_queue")
    /\ IF main_i <= Len(requests)
       THEN /\ IF QueueAccepts(camera, cam_queue, cb_req, requests[main_i])
               THEN cam_queue' = Append(cam_queue, requests[main_i].buffer)
               ELSE UNCHANGED cam_queue
            /\ main_i' = main_i + 1
            /\ UNCHANGED main_pc
       ELSE /\ main_pc' = "main_wait"
            /\ main_i' = 0
            /\ UNCHANGED cam_queue
    /\ UNCHANGED <<main_op, main_ret, get_results, connected>>
    /\ UNCHANGED <<detVars, camVars, videoVars, pubVars, soloVars, cbVars, histVars, fixedVars>>

\* `while (frame_count < max_frames) sleep_for(100ms)' is left
main_wait ==
    /\ InMain("main_wait")
    /\ ~(frame_count < max_frames)
    /\ main_pc' = "main_stop"
    /\ UNCHANGED <<main_op, main_ret, main_i, get_results>>
    /\ UNCHANGED <<detVars, camVars, videoVars, pubVars, soloVars, libVars, cbVars,
                   histVars, fixedVars>>

\* `camera->stop()' is entered
main_stop ==
    /\ InMain("main_stop")
    /\ cb_pc = "idle"
    /\ camera' = "stopping"
    /\ main_pc' = "main_stop_wait"
    /\ UNCHANGED <<camera_manager, allocator, requests, camera_running>>
    /\ UNCHANGED <<main_op, main_ret, main_i, get_results>>
    /\ UNCHANGED <<detVars, videoVars, pubVars, soloVars, libVars, cbVars, histVars, fixedVars>>

\* `camera->stop()' returns
main_stopped ==
    /\ InMain("main_stop_wait")
    /\ cb_pc = "idle" /\ cam_queue = <<>>
    /\ camera' = "configured"
    /\ teardown' = Append(teardown, "camera_stop")
    /\ main_pc' = "main_disconnect"
    /\ UNCHANGED <<camera_manager, allocator, requests, camera_running>>
    /\ UNCHANGED <<main_op, main_ret, main_i, get_results>>
    /\ UNCHANGED <<lifecycle, init_ok, restart, recent, queued_by_start>>
    /\ UNCHANGED <<detVars, videoVars, pubVars, soloVars, libVars, cbVars, fixedVars>>

\* `camera->requestCompleted.disconnect()'
main_disconnect ==
    /\ InMain("main_disconnect")
    /\ connected' = 0
    /\ teardown' = Append(teardown, "disconnect")
    /\ main_pc' = "main_release"
    /\ UNCHANGED cam_queue
    /\ UNCHANGED <<main_op, main_ret, main_i, get_results>>
    /\ UNCHANGED <<lifecycle, init_ok, restart, recent, queued_by_start>>
    /\ UNCHANGED <<detVars, camVars, videoVars, pubVars, soloVars, cbVars, fixedVars>>

\* `camera->release(); camera.reset()'
main_release ==
    /\ InMain("main_release")
    /\ camera' = "null"
    /\ teardown' = Append(teardown, "camera_release")
    /\ main_pc' = "main_delete_allocator"
    /\ UNCHANGED <<camera_manager, allocator, requests, camera_running>>
    /\ UNCHANGED <<main_op, main_ret, main_i, get_results>>
    /\ UNCHANGED <<lifecycle, init_ok, restart, recent, queued_by_start>>
    /\ UNCHANGED <<detVars, videoVars, pubVars, soloVars, libVars, cbVars, fixedVars>>

\* `delete allocator'
main_delete_allocator ==
    /\ InMain("main_delete_allocator")
    /\ allocator' = "null"
    /\ teardown' = Append(teardown, "free_allocator")
    /\ main_pc' = "main_manager_stop"
    /\ UNCHANGED <<camera_manager, camera, requests, camera_running>>
    /\ UNCHANGED <<main_op, main_ret, main_i, get_results>>
    /\ UNCHANGED <<lifecycle, init_ok, restart, recent, queued_by_start>>
    /\ UNCHANGED <<detVars, videoVars, pubVars, soloVars, libVars, cbVars, fixedVars>>

\* `cm->stop()'
main_manager_stop ==
    /\ InMain("main_manager_stop")
    /\ camera_manager' = "stopped"
    /\ teardown' = Append(teardown, "manager_stop")
    /\ main_pc' = "main_delete_detector"
    /\ UNCHANGED <<camera, allocator, requests, camera_running>>
    /\ UNCHANGED <<main_op, main_ret, main_i, get_results>>
    /\ UNCHANGED <<lifecycle, init_ok, restart, recent, queued_by_start>>
    /\ UNCHANGED <<detVars, videoVars, pubVars, soloVars, libVars, cbVars, fixedVars>>

\* `delete detector'
main_delete_detector ==
    /\ InMain("main_delete_detector")
    /\ detector' = "deleted"
    /\ teardown' = Append(teardown, "delete_detector")
    /\ main_pc' = "main_return"
    /\ UNCHANGED <<frame_count, exit_code>>
    /\ UNCHANGED <<main_op, main_ret, main_i, get_results>>
    /\ UNCHANGED <<lifecycle, init_ok, restart, recent, queued_by_start>>
    /\ UNCHANGED <<detVars, camVars, videoVars, pubVars, libVars, cbVars, fixedVars>>

\* `return 0': the locals `requests' and `cm' are destroyed
main_return ==
    /\ InMain("main_return")
    /\ requests' = <<>>
    /\ camera_manager' = "null"
    /\ teardown' = Append(teardown, "free_requests")
    /\ exit_code' = "0"
    /\ main_pc' = "exited"
    /\ UNCHANGED <<camera, allocator, camera_running>>
    /\ UNCHANGED <<detector, frame_count>>
    /\ UNCHANGED <<main_op, main_ret, main_i, get_results>>
    /\ UNCHANGED <<lifecycle, init_ok, restart, recent, queued_by_start>>
    /\ UNCHANGED <<detVars, videoVars, pubVars, libVars, cbVars, fixedVars>>

(***************************************************************************)
(* The standalone programs: static void requestComplete(Request *request). *)
(***************************************************************************)
InSoloCallback(pc) == program \in Standalone /\ cb_pc = pc

\* `if (cancelled) return;' then `if (detector && frame_count < max_frames)'
solo_requestComplete ==
    /\ InSoloCallback("entry")
    /\ IF cb_status = "cancelled"
       THEN /\ cb_pc' = "idle" /\ cb_req' = 0 /\ cb_status' = "none"
       ELSE /\ cb_pc' = IF detector # "null" /\ frame_count < max_frames THEN "mmap" ELSE "count"
            /\ UNCHANGED <<cb_req, cb_status>>
    /\ cb_trace' = <<>>
    /\ cb_detect_calls' = 0
    /\ UNCHANGED <<cb_bytesused, cb_memory, cb_frame, cb_results, cb_i, bad_read>>
    /\ UNCHANGED <<detVars, camVars, videoVars, pubVars, soloVars, libVars, mainVars,
                   histVars, fixedVars>>

\* `void *memory = mmap(...)'
solo_mmap ==
    /\ InSoloCallback("mmap")
    /\ \E ok \in BOOLEAN :
         IF ok
         THEN /\ cb_memory' = "mapped"
              /\ cb_trace' = Append(cb_trace, "map")
              /\ cb_pc' = "process"
         ELSE /\ cb_pc' = "count"
              /\ UNCHANGED <<cb_memory, cb_trace>>
    /\ UNCHANGED <<cb_req, cb_status, cb_bytesused, cb_frame, cb_results, cb_i,
                   cb_detect_calls, bad_read>>
    /\ UNCHANGED <<detVars, camVars, videoVars, pubVars, soloVars, libVars, mainVars,
                   histVars, fixedVars>>

\* detector->process_frame(memory, bytesused, width, height) and the printing of results
process_frame ==
    /\ InSoloCallback("process")
    /\ LET decodable == is_initialized
                        /\ cb_bytesused \in {Expected8bit(program), Expected16bit(program)}
       IN IF decodable
          THEN \E scene \in Scenes :
                 LET results == ProcessFrameForDetection(scene, is_initialized,
                                                         camera_matrix, dist_coeffs)
                     runs == [k \in 1..DetectionsPerFrame(program) |-> "detect"]
                 IN /\ cb_results' = results
                    /\ cb_frame' = IF cb_bytesused = Expected8bit(program)
                                   THEN "view" ELSE "converted"
                    /\ cb_detect_calls' = DetectionsPerFrame(program)
                    /\ cb_trace' = cb_trace \o <<"frame">> \o runs
                                   \o (IF results # <<>> THEN <<"publish">> ELSE <<>>)
                    /\ bad_read' = ReadsMemory(bad_read)
          ELSE UNCHANGED <<cb_results, cb_frame, cb_detect_calls, cb_trace, bad_read>>
    /\ cb_pc' = "munmap"
    /\ UNCHANGED <<cb_req, cb_status, cb_bytesused, cb_memory, cb_i>>
    /\ UNCHANGED <<detVars, camVars, videoVars, pubVars, soloVars, libVars, mainVars,
                   histVars, fixedVars>>

\* `munmap(memory, plane.bytesused)'
solo_munmap ==
    /\ InSoloCallback("munmap")
    /\ cb_memory' = "unmapped"
    /\ cb_trace' = Append(cb_trace, "unmap")
    /\ cb_pc' = "count"
    /\ UNCHANGED <<cb_req, cb_status, cb_bytesused, cb_frame, cb_results, cb_i,
                   cb_detect_calls, bad_read>>
    /\ UNCHANGED <<detVars, camVars, videoVars, pubVars, soloVars, libVars, mainVars,
                   histVars, fixedVars>>

\* a count that lets the request of frame max_frames go back to the camera
solo_count_late ==
    /\ InSoloCallback("count")
    /\ frame_count' = frame_count + 1
    /\ cb_pc' = IF frame_count' > max_frames THEN "return" ELSE "reuse"
    /\ UNCHANGED <<detector, exit_code>>
    /\ UNCHANGED <<cb_req, cb_status, cb_bytesused, cb_memory, cb_frame, cb_results, cb_i,
                   cb_trace, cb_detect_calls, bad_read>>
    /\ UNCHANGED <<detVars, camVars, videoVars, pubVars, libVars, mainVars, histVars, fixedVars>>

\* `frame_count++; if (frame_count >= max_frames) return;'
solo_count ==
    /\ InSoloCallback("count")
    /\ frame_count' = frame_count + 1
    /\ cb_pc' = IF frame_count' >= max_frames THEN "return" ELSE "reuse"
    /\ UNCHANGED <<detector, exit_code>>
    /\ UNCHANGED <<cb_req, cb_status, cb_bytesused, cb_memory, cb_frame, cb_results, cb_i,
                   cb_trace, cb_detect_calls, bad_read>>
    /\ UNCHANGED <<detVars, camVars, videoVars, pubVars, libVars, mainVars, histVars, fixedVars>>

\* `request->reuse(Request::ReuseBuffers)'
solo_reuse ==
    /\ InSoloCallback("reuse")
    /\ cb_trace' = Append(cb_trace, "reuse")
    /\ cb_pc' = "requeue"
    /\ UNCHANGED <<cb_req, cb_status, cb_bytesused, cb_memory, cb_frame, cb_results, cb_i,
                   cb_detect_calls, bad_read>>
    /\ UNCHANGED <<detVars, camVars, videoVars, pubVars, soloVars, libVars, mainVars,
                   histVars, fixedVars>>

\* `camera->queueRequest(request)'
solo_requeue ==
    /\ InSoloCallback("requeue")
    /\ IF QueueAccepts(camera, cam_queue, 0, [buffer |-> cb_req, stale |-> FALSE])
       THEN /\ cam_queue' = Append(cam_queue, cb_req)
            /\ cb_trace' = Append(cb_trace, "requeue")
       ELSE UNCHANGED <<cam_queue, cb_trace>>
    /\ cb_pc' = "return"
    /\ UNCHANGED connected
    /\ UNCHANGED <<cb_req, cb_status, cb_bytesused, cb_memory, cb_frame, cb_results, cb_i,
                   cb_detect_calls, bad_read>>
    /\ UNCHANGED <<detVars, camVars, videoVars, pubVars, soloVars, mainVars, histVars, fixedVars>>

\* the callback returns
solo_return ==
    /\ InSoloCallback("return")
    /\ cb_pc' = "idle" /\ cb_req' = 0 /\ cb_status' = "none" /\ cb_bytesused' = 0
    /\ cb_frame' = NoFrame /\ cb_results' = <<>> /\ cb_trace' = <<>> /\ cb_detect_calls' = 0
    /\ UNCHANGED <<cb_memory, cb_i, bad_read>>
    /\ UNCHANGED <<detVars, camVars, videoVars, pubVars, soloVars, libVars, mainVars,
                   histVars, fixedVars>>

NextStandalone ==
    \/ main \/ main_manager \/ main_configure \/ main_allocate \/ main_requests
    \/ main_start \/ main_queue \/ main_wait \/ main_stop \/ main_stopped
    \/ main_disconnect \/ main_release \/ main_delete_allocator \/ main_manager_stop
    \/ main_delete_detector \/ main_return
    \/ solo_requestComplete \/ solo_mmap \/ process_frame \/ solo_munmap \/ solo_count
    \/ solo_reuse \/ solo_requeue \/ solo_return

NextGDExtension ==
    \/ load_camera_parameters
    \/ initialize_camera
    \/ start_camera_call \/ start_camera \/ start_camera_queue \/ start_camera_return
    \/ stop_camera_call \/ stop_camera \/ stop_camera_stopped \/ stop_camera_disconnect
    \/ stop_camera_release \/ stop_camera_free \/ stop_camera_manager \/ stop_camera_return
    \/ get_latest_detections_call \/ get_latest_detections_lock
    \/ get_latest_detections_copy \/ get_latest_detections_return
    \/ requestComplete \/ requestComplete_mmap \/ requestComplete_frame
    \/ store_frame_for_video_feedback \/ process_frame_for_detection
    \/ requestComplete_lock \/ requestComplete_assign \/ requestComplete_unlock
    \/ requestComplete_munmap \/ requestComplete_reuse \/ requeue_request
    \/ requestComplete_return

Init == InitGDExtension \/ InitStandalone

Next == NextGDExtension \/ NextStandalone \/ CameraCompletesRequest \/ CameraCancelsRequest

Spec == Init /\ [][Next]_vars

(***************************************************************************)
(* The GDExtension alone, with the progress its threads and the camera make.*)
(***************************************************************************)
NextCapture == NextGDExtension \/ CameraCompletesRequest \/ CameraCancelsRequest

\* a step of the callback on the camera thread
CallbackStep ==
    \/ requestComplete \/ requestComplete_mmap \/ requestComplete_frame
    \/ store_frame_for_video_feedback \/ process_frame_for_detection
    \/ requestComplete_lock \/ requestComplete_assign \/ requestComplete_unlock
    \/ requestComplete_munmap \/ requestComplete_reuse \/ requeue_request
    \/ requestComplete_return

\* a step of a method the application thread has entered
MethodStep ==
    \/ start_camera \/ start_camera_queue \/ start_camera_return
    \/ stop_camera \/ stop_camera_stopped \/ stop_camera_disconnect
    \/ stop_camera_release \/ stop_camera_free \/ stop_camera_manager
    \/ stop_camera_return
    \/ get_latest_detections_lock \/ get_latest_detections_copy
    \/ get_latest_detections_return

\* the camera completes a queued request with a frame of the 8-bit size
GoodFrame == CameraCompletesRequest /\ cb_bytesused' = Expected8bit(program)

\* mmap succeeds on such a frame
GoodMap ==
    requestComplete_mmap /\ cb_bytesused = Expected8bit(program) /\ cb_memory' = "mapped"

FairSpec ==
    /\ InitGDExtension /\ [][NextCapture]_vars
    /\ SF_vars(CallbackStep) /\ WF_vars(MethodStep)
    /\ WF_vars(CameraCancelsRequest)
    /\ SF_vars(GoodFrame) /\ SF_vars(GoodMap)

(***************************************************************************)
(* The standalone programs alone: main and the callback keep running, the  *)
(* camera completes the requests it holds.                                 *)
(***************************************************************************)
FairStandalone ==
    /\ InitStandalone
    /\ [][NextStandalone \/ CameraCompletesRequest \/ CameraCancelsRequest]_vars
    /\ WF_vars(NextStandalone)
    /\ WF_vars(CameraCompletesRequest) /\ WF_vars(CameraCancelsRequest)

(***************************************************************************)
(* The MarkerTracker of the demo project, fed with detections.             *)
(***************************************************************************)
notTracker == <<detVars, camVars, videoVars, pubVars, soloVars, libVars, cbVars, mainVars,
                histVars, program, current_instance, frame_skip_counter, toml_file, instVars,
                calibVars>>

\* func process_detections(detections: Array) -> Vector3
process_detections ==
    /\ Idle
    /\ \E empty \in BOOLEAN :
         IF empty
         THEN /\ filtered' = Vector3ZERO
              /\ UNCHANGED <<filter, local_coordinates, updates>>
         ELSE /\ updates < MaxUpdates
              /\ \E coords \in Coordinates :
                   /\ local_coordinates' = coords
                   /\ filter' = Update(filter, coords)
              /\ filtered' = <<filter'.ema_x, filter'.ema_y, filter'.ema_z>>
              /\ updates' = updates + 1
    /\ UNCHANGED notTracker

\* func reset_tracking()
reset_tracking ==
    /\ Idle
    /\ filter' = NewFilter
    /\ updates' = 0
    /\ UNCHANGED <<filtered, local_coordinates>>
    /\ UNCHANGED notTracker

NextTracker == process_detections \/ reset_tracking

SpecTracker == InitGDExtension /\ [][NextTracker]_vars

(***************************************************************************)
(* Video feedback while the camera captures: the detector after            *)
(* load_camera_parameters, initialize_camera and start_camera returned     *)
(* true, the application toggling the feedback and fetching the texture.   *)
(***************************************************************************)
\* video_frame_counter is static and never reset: a fresh process, and one that has
\* counted frames up to the last multiple of VIDEO_FRAME_SKIP an int holds
CountersAtStart == {0, 2147483640}

InitVideo ==
    /\ program = "gdextension"
    /\ toml_file = NoToml
    /\ current_instance = "this"
    /\ detector = "null"
    /\ main_pc = "idle" /\ main_op = "none"
    /\ is_initialized = TRUE
    /\ camera_matrix = Flatten(CalibMatrix) /\ dist_coeffs = Flatten(CalibDist)
    /\ camera_manager = "started" /\ camera = "running" /\ allocator = "allocated"
    /\ requests = NewRequests(NumBuffers) /\ camera_running = TRUE
    /\ filter = NewFilter /\ filtered = Vector3ZERO /\ local_coordinates = Vector3ZERO
    /\ updates = 0
    /\ video_feedback_enabled = FALSE /\ current_frame = NoFrame
    /\ video_frame_resized = NoFrame /\ video_frame_counter \in CountersAtStart
    /\ frame_mutex = "free" /\ video_count = 0 /\ texture = "none"
    /\ video_off = FALSE /\ video_gap = VIDEO_FRAME_SKIP - 1 /\ video_frames = 0
    /\ latest_detections = <<>> /\ detection_mutex = "free"
    /\ frame_skip_counter = 0
    /\ instances = [d \in DetectorIds |-> Unborn] /\ serving = NotServing
    /\ array_arg = <<>> /\ array_result = <<>>
    /\ frame_count = 0 /\ exit_code = "none"
    /\ cam_queue = [i \in 1..NumBuffers |-> i] /\ connected = 1
    /\ cb_pc = "idle" /\ cb_req = 0 /\ cb_status = "none" /\ cb_bytesused = 0
    /\ cb_memory = "unmapped" /\ cb_frame = NoFrame /\ cb_results = <<>> /\ cb_i = 0
    /\ main_ret = TRUE /\ main_i = 0 /\ get_results = <<>>
    /\ lifecycle = "on" /\ init_ok = TRUE /\ restart = "none" /\ recent = "none"
    /\ queued_by_start = NumBuffers
    /\ teardown = <<>> /\ cb_trace = <<>> /\ cb_detect_calls = 0 /\ bad_read = FALSE
    /\ last_published = <<>> /\ seen_complete = {}

NextVideo ==
    \/ set_video_feedback_enabled \/ set_video_feedback_enabled_lock
    \/ set_video_feedback_enabled_release \/ set_video_feedback_enabled_return
    \/ get_current_frame_texture
    \/ CameraCompletesRequest
    \/ requestComplete \/ requestComplete_mmap \/ requestComplete_frame
    \/ store_frame_for_video_feedback \/ store_frame_lock \/ store_frame_copy
    \/ process_frame_for_detection
    \/ requestComplete_lock \/ requestComplete_assign \/ requestComplete_unlock
    \/ requestComplete_munmap \/ requestComplete_reuse \/ requeue_request
    \/ requestComplete_return

SpecVideo == InitVideo /\ [][NextVideo]_vars

(***************************************************************************)
(* The calibration accessors, called on the application thread while the   *)
(* camera captures: the detector after initialize_camera and start_camera  *)
(* returned true, no parameters loaded yet.                                *)
(***************************************************************************)
\* a Variant of an Array: its type and the number it holds
Variant(type, n) == [type |-> type, value |-> n]

\* `data.push_back(matrix[i])': the double a numeric Variant converts to
ToDouble(v) == v.value

\* Arrays a script may pass: 9 and 4 numbers, floats and ints, and none
ArraysGiven == {
    [i \in 1..9 |-> Variant("FLOAT", 10 * i)],
    [i \in 1..9 |-> Variant("INT", 100 - i)],
    [i \in 1..4 |-> Variant("FLOAT", 5 - i)],
    [i \in 1..4 |-> Variant("INT", 7 * i)],
    <<>> }

\* cv::Mat(rows, cols, CV_64F, data.data()).clone(): the elements, row after row
MatFromData(data) == data

\* mat.at<double>(row, col) of a matrix of `cols' columns
MatAt_transposed(mat, cols, row, col) == mat[col * cols + row + 1]

MatAt(mat, cols, row, col) == mat[row * cols + col + 1]

\* Array get_camera_matrix() const
GetCameraMatrix(mat) ==
    IF mat = NoMat THEN <<>>
    ELSE [i \in 1..9 |-> Variant("FLOAT", MatAt(mat, 3, (i - 1) \div 3, (i - 1) % 3))]

\* Array get_distortion_coefficients() const
GetDistortionCoefficients(mat) ==
    IF mat = NoMat THEN <<>>
    ELSE [i \in 1..4 |-> Variant("FLOAT", MatAt(mat, 1, i - 1, 0))]

\* void set_camera_matrix(const Array &matrix): `if (matrix.size() != 9) return'
set_camera_matrix ==
    /\ Idle
    /\ \E matrix \in ArraysGiven :
         /\ array_arg' = matrix
         /\ main_pc' = IF Len(matrix) # 9 THEN "set_return" ELSE "set_camera_matrix"
    /\ main_op' = "set_camera_matrix"
    /\ UNCHANGED <<main_ret, main_i, get_results, array_result>>
    /\ UNCHANGED <<detVars, camVars, videoVars, pubVars, soloVars, libVars, cbVars, histVars,
                   program, current_instance, frame_skip_counter, toml_file, trackVars,
                   instVars>>

\* `camera_matrix = cv::Mat(3, 3, CV_64F, data.data()).clone()'
set_camera_matrix_assign ==
    /\ program = "gdextension" /\ main_pc = "set_camera_matrix"
    /\ camera_matrix' = MatFromData([i \in 1..9 |-> ToDouble(array_arg[i])])
    /\ main_pc' = "set_is_initialized"
    /\ UNCHANGED <<is_initialized, dist_coeffs>>
    /\ UNCHANGED <<main_op, main_ret, main_i, get_results>>
    /\ UNCHANGED <<camVars, videoVars, pubVars, soloVars, libVars, cbVars, histVars, fixedVars>>

\* `is_initialized = true'
set_camera_matrix_initialized ==
    /\ program = "gdextension" /\ main_pc = "set_is_initialized"
    /\ is_initialized' = TRUE
    /\ main_pc' = "set_return"
    /\ UNCHANGED <<camera_matrix, dist_coeffs>>
    /\ UNCHANGED <<main_op, main_ret, main_i, get_results>>
    /\ UNCHANGED <<camVars, videoVars, pubVars, soloVars, libVars, cbVars, histVars, fixedVars>>

\* void set_distortion_coefficients(const Array &coeffs): `if (coeffs.size() != 4) return'
set_distortion_coefficients ==
    /\ Idle
    /\ \E coeffs \in ArraysGiven :
         /\ array_arg' = coeffs
         /\ main_pc' = IF Len(coeffs) # 4 THEN "set_return" ELSE "set_distortion_coefficients"
    /\ main_op' = "set_distortion_coefficients"
    /\ UNCHANGED <<main_ret, main_i, get_results, array_result>>
    /\ UNCHANGED <<detVars, camVars, videoVars, pubVars, soloVars, libVars, cbVars, histVars,
                   program, current_instance, frame_skip_counter, toml_file, trackVars,
                   instVars>>

\* `dist_coeffs = cv::Mat(4, 1, CV_64F, data.data()).clone()'
set_distortion_coefficients_assign ==
    /\ program = "gdextension" /\ main_pc = "set_distortion_coefficients"
    /\ dist_coeffs' = MatFromData([i \in 1..4 |-> ToDouble(array_arg[i])])
    /\ main_pc' = "set_return"
    /\ UNCHANGED <<is_initialized, camera_matrix>>
    /\ UNCHANGED <<main_op, main_ret, main_i, get_results>>
    /\ UNCHANGED <<camVars, videoVars, pubVars, soloVars, libVars, cbVars, histVars, fixedVars>>

\* either setter returns
set_return ==
    /\ program = "gdextension" /\ main_pc = "set_return"
    /\ main_pc' = "idle" /\ main_op' = "none"
    /\ array_arg' = <<>>
    /\ UNCHANGED <<main_ret, main_i, get_results, array_result>>
    /\ UNCHANGED <<detVars, camVars, videoVars, pubVars, soloVars, libVars, cbVars, histVars,
                   program, current_instance, frame_skip_counter, toml_file, trackVars,
                   instVars>>

get_camera_matrix ==
    /\ Idle
    /\ array_result' = GetCameraMatrix(camera_matrix)
    /\ main_op' = "get_camera_matrix"
    /\ UNCHANGED <<main_pc, main_ret, main_i, get_results, array_arg>>
    /\ UNCHANGED <<detVars, camVars, videoVars, pubVars, soloVars, libVars, cbVars, histVars,
                   program, current_instance, frame_skip_counter, toml_file, trackVars,
                   instVars>>

get_distortion_coefficients ==
    /\ Idle
    /\ array_result' = GetDistortionCoefficients(dist_coeffs)
    /\ main_op' = "get_distortion_coefficients"
    /\ UNCHANGED <<main_pc, main_ret, main_i, get_results, array_arg>>
    /\ UNCHANGED <<detVars, camVars, videoVars, pubVars, soloVars, libVars, cbVars, histVars,
                   program, current_instance, frame_skip_counter, toml_file, trackVars,
                   instVars>>

SetterStep ==
    \/ set_camera_matrix \/ set_camera_matrix_assign \/ set_camera_matrix_initialized
    \/ set_distortion_coefficients \/ set_distortion_coefficients_assign \/ set_return

InitCalibration ==
    /\ program = "gdextension"
    /\ toml_file = NoToml
    /\ current_instance = "this"
    /\ detector = "null"
    /\ main_pc = "idle" /\ main_op = "none"
    /\ is_initialized = FALSE /\ camera_matrix = NoMat /\ dist_coeffs = NoMat
    /\ camera_manager = "started" /\ camera = "running" /\ allocator = "allocated"
    /\ requests = NewRequests(NumBuffers) /\ camera_running = TRUE
    /\ filter = NewFilter /\ filtered = Vector3ZERO /\ local_coordinates = Vector3ZERO
    /\ updates = 0
    /\ video_feedback_enabled = FALSE /\ current_frame = NoFrame
    /\ video_frame_resized = NoFrame /\ video_frame_counter = 0
    /\ frame_mutex = "free" /\ video_count = 0 /\ texture = "none"
    /\ video_off = FALSE /\ video_gap = VIDEO_FRAME_SKIP - 1 /\ video_frames = 0
    /\ latest_detections = <<>> /\ detection_mutex = "free"
    /\ frame_skip_counter = 0
    /\ instances = [d \in DetectorIds |-> Unborn] /\ serving = NotServing
    /\ array_arg = <<>> /\ array_result = <<>>
    /\ frame_count = 0 /\ exit_code = "none"
    /\ cam_queue = [i \in 1..NumBuffers |-> i] /\ connected = 1
    /\ cb_pc = "idle" /\ cb_req = 0 /\ cb_status = "none" /\ cb_bytesused = 0
    /\ cb_memory = "unmapped" /\ cb_frame = NoFrame /\ cb_results = <<>> /\ cb_i = 0
    /\ main_ret = TRUE /\ main_i = 0 /\ get_results = <<>>
    /\ lifecycle = "on" /\ init_ok = TRUE /\ restart = "none" /\ recent = "none"
    /\ queued_by_start = NumBuffers
    /\ teardown = <<>> /\ cb_trace = <<>> /\ cb_detect_calls = 0 /\ bad_read = FALSE
    /\ last_published = <<>> /\ seen_complete = {}

NextCalibration ==
    \/ load_camera_parameters \/ SetterStep
    \/ CameraCompletesRequest
    \/ requestComplete \/ requestComplete_mmap \/ requestComplete_frame
    \/ store_frame_for_video_feedback \/ process_frame_for_detection
    \/ requestComplete_lock \/ requestComplete_assign \/ requestComplete_unlock
    \/ requestComplete_munmap \/ requestComplete_reuse \/ requeue_request
    \/ requestComplete_return

SpecCalibration == InitCalibration /\ [][NextCalibration]_vars

\* the accessors alone, on a detector just constructed
NextAccessors == SetterStep \/ get_camera_matrix \/ get_distortion_coefficients

SpecAccessors == InitGDExtension /\ [][NextAccessors]_vars

(***************************************************************************)
(* Several AprilTagDetector nodes in one process: each is constructed and  *)
(* destroyed, one at a time holds the camera, and the one static callback  *)
(* serves every completed request through the static current_instance.     *)
(***************************************************************************)
notInstances == <<detVars, camVars, videoVars, pubVars, soloVars, libVars, cbVars, mainVars,
                  histVars, program, frame_skip_counter, toml_file, trackVars, calibVars>>

InitInstances ==
    /\ program = "gdextension"
    /\ toml_file = NoToml
    /\ current_instance = "null"
    /\ detector = "null"
    /\ main_pc = "idle" /\ main_op = "none"
    /\ InitCommon

Live(d) == d \in DetectorIds /\ instances[d].life = "live"

\* AprilTagDetector::AprilTagDetector: `current_instance = this', unless
\* getPredefinedDictionary threw first
AprilTagDetector ==
    /\ \E d \in DetectorIds, thrown \in BOOLEAN :
         /\ instances[d].life = "unborn"
         /\ instances' = [instances EXCEPT ![d].life = "live"]
         /\ current_instance' = IF thrown THEN current_instance ELSE d
    /\ UNCHANGED <<serving, notInstances>>

\* load_camera_parameters, initialize_camera and start_camera returned true: the
\* camera is acquired by one instance at a time, its requests are queued
instance_start_camera ==
    /\ \E d \in DetectorIds :
         /\ Live(d) /\ ~instances[d].camera_running
         /\ \A e \in DetectorIds : ~instances[e].camera_running
         /\ instances' = [instances EXCEPT ![d].camera_running = TRUE, ![d].queued = NumBuffers]
    /\ UNCHANGED <<current_instance, serving, notInstances>>

\* AprilTagDetector::~AprilTagDetector: stop_camera(), and current_instance is left as it is
AprilTagDetector_destructor ==
    /\ \E d \in DetectorIds :
         /\ Live(d)
         /\ instances' = [instances EXCEPT ![d] = [life |-> "destroyed", camera_running |-> FALSE,
                                                   queued |-> 0]]
    /\ UNCHANGED <<current_instance, serving, notInstances>>

\* the camera of an instance completes a request: requestComplete is entered
instance_requestComplete ==
    /\ serving.pc = "idle"
    /\ \E d \in DetectorIds :
         /\ instances[d].camera_running /\ instances[d].queued > 0
         /\ instances' = [instances EXCEPT ![d].queued = @ - 1]
         /\ serving' = [pc |-> "process", owner |-> d, processed_by |-> "none",
                        requeued_to |-> "none"]
    /\ UNCHANGED <<current_instance, notInstances>>

\* `if (!frame.empty() && current_instance)' and the calls on `instance'
instance_process ==
    /\ serving.pc = "process"
    /\ serving' = [serving EXCEPT !.pc = "requeue",
                                  !.processed_by = IF current_instance = "null" THEN "none"
                                                   ELSE current_instance]
    /\ UNCHANGED <<current_instance, instances, notInstances>>

\* `if (current_instance) current_instance->requeue_request(request)': the request goes
\* to the camera of that instance if it has one running; the fields of a destroyed
\* instance are freed memory, and the test reads either value from them
instance_requeue ==
    /\ serving.pc = "requeue"
    /\ \E running \in BOOLEAN :
         /\ current_instance # "null" /\ Live(current_instance)
                => running = instances[current_instance].camera_running
         /\ current_instance = "null" => ~running
         /\ IF running /\ Live(current_instance)
            THEN /\ instances' = [instances EXCEPT ![current_instance].queued = @ + 1]
                 /\ serving' = [serving EXCEPT !.pc = "idle", !.requeued_to = current_instance]
            ELSE /\ serving' = [serving EXCEPT !.pc = "idle",
                                   !.requeued_to = IF running THEN "freed" ELSE "none"]
                 /\ UNCHANGED instances
    /\ UNCHANGED <<current_instance, notInstances>>

NextInstances ==
    \/ AprilTagDetector \/ instance_start_camera \/ AprilTagDetector_destructor
    \/ instance_requestComplete \/ instance_process \/ instance_requeue

SpecInstances == InitInstances /\ [][NextInstances]_vars

(***************************************************************************)
(* Properties.                                                             *)
(***************************************************************************)
InCritical_callback == cb_pc \in {"assign", "unlock"}
InCritical_reader == main_pc \in {"get_copy", "get_return"}

\* C1: latest_detections is written by the callback and copied by
\* get_latest_detections only while detection_mutex is held, the two critical
\* sections never overlap, and the list get_latest_detections returns is the
\* complete result list of one single frame.
C1_MutexSnapshot ==
    /\ InCritical_callback => detection_mutex = "callback"
    /\ InCritical_reader => detection_mutex = "main"
    /\ ~(InCritical_callback /\ InCritical_reader)
    /\ main_pc = "get_return" =>
         \E frame \in seen_complete : get_results = ToDictionaries(frame)

\* the reader is in the middle of its copy while the callback waits for the
\* lock with a different result list
C1_Witness ==
    /\ main_pc = "get_copy" /\ main_i = 2 /\ Len(latest_detections) = 2
    /\ cb_pc = "lock" /\ cb_results # latest_detections

\* C2: when the callback has published a frame, latest_detections is exactly
\* that frame's result list, and get_latest_detections returns the results of
\* the most recently published frame (the empty array before any frame).
C2_Replaced ==
    /\ cb_pc = "unlock" => latest_detections = cb_results
    /\ main_pc = "get_return" => get_results = ToDictionaries(last_published)
    /\ (~InCritical_callback) => latest_detections = last_published

\* the reader returns the two markers of the last published frame while the
\* callback has already detected the next frame, which shows no marker
C2_Witness ==
    /\ main_pc = "get_return" /\ Len(get_results) = 2 /\ get_results[1].id = 2
    /\ cb_pc = "lock" /\ cb_results = <<>>

\* the requests in circulation: queued at the camera, or held by the callback
\* and not yet handed back
InCirculation ==
    Len(cam_queue)
    + (IF cb_pc # "idle" /\ cb_status = "complete"
          /\ \A k \in 1..Len(cam_queue) : cam_queue[k] # cb_req
       THEN 1 ELSE 0)

\* start_camera has returned true after a successful initialize_camera and
\* stop_camera has not been called since
Capturing == program = "gdextension" /\ lifecycle = "on" /\ init_ok

\* C3: while the camera is on, every request that completed without being
\* cancelled is queued back exactly once, so the requests in circulation are
\* as many as the buffers initialize_camera allocated, under every
\* interleaving of start_camera with the callback.
C3_AllInCirculation ==
    Capturing =>
        /\ InCirculation = AllocatedBuffers(allocator)
        /\ cb_pc = "return" => \E k \in 1..Len(cam_queue) : cam_queue[k] = cb_req

\* a frame that was mapped and has a supported byte count
Decodable ==
    /\ cb_status = "complete"
    /\ cb_trace # <<>> /\ cb_trace[1] = "map"
    /\ cb_bytesused \in {Expected8bit(program), Expected16bit(program)}

\* C4: a completed, mapped frame of 8-bit or 16-bit size is passed to marker
\* detection exactly once, inside the callback that delivers it (callbacks
\* are delivered one at a time, oldest request first), and frame_skip_counter
\* never suppresses a frame.
C4_DetectedOnce ==
    program = "gdextension" =>
        /\ frame_skip_counter = 0
        /\ PROCESS_EVERY_N_FRAMES = 1
        /\ cb_detect_calls <= 1
        /\ cb_pc \in {"store", "detect"} => Decodable /\ cb_detect_calls = 0
        /\ (cb_pc \in {"lock", "assign", "unlock"}) => Decodable /\ cb_detect_calls = 1
        /\ (cb_pc \in {"munmap", "reuse", "requeue", "return"} /\ Decodable)
              => cb_detect_calls = 1

\* a 16-bit frame has been converted and detected once and is being unmapped
C4_Witness ==
    /\ program = "gdextension" /\ cb_pc = "munmap"
    /\ cb_bytesused = Expected16bit(program) /\ cb_detect_calls = 1
    /\ Len(latest_detections) = 2

InStop ==
    main_pc \in {"stop_camera", "stop_wait", "stop_disconnect", "stop_release",
                 "stop_free", "stop_manager", "stop_return"}

C6_OnOff ==
    program = "gdextension" =>
        /\ lifecycle = "on" => camera_running
        /\ (camera_running /\ ~InStop) => lifecycle = "on"
        /\ connected <= 1
        /\ \A j, k \in 1..Len(cam_queue) : cam_queue[j] = cam_queue[k] => j = k

C6_Refusal ==
    (/\ program = "gdextension" /\ main_pc = "start_camera"
     /\ (camera = "null" \/ camera_running)
     /\ main_pc' # main_pc)
    => /\ main_ret' = FALSE /\ main_pc' = "idle"
       /\ UNCHANGED <<detVars, camVars, videoVars, pubVars, libVars, cbVars, lifecycle>>

\* C6: camera_running is true exactly from a start_camera that returned true
\* until the next stop_camera; a start_camera without a camera or on a running
\* camera returns false and changes nothing, so the callback is never
\* connected twice and no request is queued twice.
C6_TwoStates == [](C6_OnOff) /\ [][C6_Refusal]_vars

\* start_camera has been called on a running camera whose callback is busy
C6_Witness ==
    /\ program = "gdextension" /\ main_pc = "start_camera"
    /\ camera_running /\ lifecycle = "on" /\ connected = 1
    /\ cam_queue # <<>> /\ cb_pc = "detect"

\* C7: after stop_camera, an initialize_camera that finds a camera with a
\* valid configuration returns true and leaves one fresh request per buffer;
\* the start_camera that follows returns true, has connected the callback
\* exactly once and has queued exactly one request per buffer.
C7_Restart ==
    program = "gdextension" =>
        /\ restart # "refused"
        /\ restart = "initialized" =>
             /\ camera = "configured" /\ allocator = "allocated" /\ ~camera_running
             /\ requests = NewRequests(NumBuffers)
             /\ connected = 0 /\ cam_queue = <<>>
        /\ (restart = "starting" /\ main_pc = "start_camera") =>
             ~(camera = "null" \/ camera_running)
        /\ restart = "started" =>
             /\ camera_running /\ camera = "running" /\ lifecycle = "on"
             /\ connected = 1
             /\ queued_by_start = NumBuffers /\ Len(requests) = NumBuffers

\* the camera has been restarted after a run that had published markers
C7_Witness ==
    /\ program = "gdextension" /\ restart = "started" /\ main_pc = "idle"
    /\ main_ret /\ last_published # <<>> /\ Len(cam_queue) = NumBuffers

Released ==
    /\ ~camera_running /\ camera = "null" /\ requests = <<>>
    /\ allocator = "null" /\ camera_manager = "null"

C8_AfterStop ==
    program = "gdextension" =>
        /\ main_pc \in {"stop_return", "destroyed"} =>
             Released /\ connected = 0 /\ cam_queue = <<>> /\ cb_pc = "idle"
        /\ restart = "stopped" => Released

C8_Idempotent ==
    (program = "gdextension" /\ InStop /\ Released)
    => Released' /\ UNCHANGED <<camVars, libVars>>

\* C8: whatever the state stop_camera is called in, when it returns (and when
\* the destructor has run) camera_running is false and the camera, the request
\* list, the allocator and the camera manager are released; a stop_camera that
\* finds them released changes nothing.
C8_StopReleases == [](C8_AfterStop) /\ [][C8_Idempotent]_vars

\* a second stop_camera returns, having found nothing to release, after a run
C8_Witness ==
    /\ program = "gdextension" /\ main_pc = "stop_return" /\ main_op = "stop_camera"
    /\ teardown = <<"free_requests", "free_allocator">> /\ last_published # <<>>

IsPrefix(a, b) == Len(a) <= Len(b) /\ a = SubSeq(b, 1, Len(a))

\* the log is that of the teardown of a running camera
RunningTeardown == teardown # <<>> /\ teardown[1] = "camera_stop"

TeardownGDExtension ==
    <<"camera_stop", "disconnect", "camera_release", "free_requests", "free_allocator",
      "manager_stop">>

TeardownStandalone ==
    <<"camera_stop", "disconnect", "camera_release", "free_allocator", "manager_stop",
      "delete_detector", "free_requests">>

\* once the camera has been stopped nothing is queued and no callback runs
QuietAfterStop ==
    /\ (\E k \in 1..Len(teardown) : teardown[k] = "camera_stop") =>
          cam_queue = <<>> /\ cb_pc = "idle" /\ cb_memory = "unmapped"
    /\ camera \notin {"running", "stopping"} =>
          cam_queue = <<>> /\ cb_pc = "idle" /\ cb_memory = "unmapped"

ClaimedRank(e) ==
    CASE e = "camera_stop" -> 1
      [] e = "disconnect" -> 2
      [] e = "camera_release" -> 3
      [] e \in {"free_requests", "free_allocator"} -> 4
      [] e = "manager_stop" -> 5
      [] OTHER -> 0

\* C9 as stated: teardown of a running camera goes camera stop, disconnect,
\* camera release, freeing of requests and allocator, camera manager stop, in
\* the GDExtension and in both standalone programs, and after the stop no
\* request is queued and no callback maps or reads a buffer.
C9_ClaimedOrder ==
    /\ RunningTeardown =>
         \A j, k \in 1..Len(teardown) :
            (j < k /\ ClaimedRank(teardown[j]) > 0 /\ ClaimedRank(teardown[k]) > 0)
               => ClaimedRank(teardown[j]) <= ClaimedRank(teardown[k])
    /\ QuietAfterStop

\* C9: teardown of a running camera goes camera stop, disconnect, camera
\* release, then (GDExtension) requests and allocator or (standalone) the
\* allocator, then camera manager stop; the standalone programs free their
\* request list last, when main returns; after the stop no request is queued
\* and no callback maps or reads a buffer.
C9_TeardownOrder ==
    /\ RunningTeardown =>
         IsPrefix(teardown, IF program = "gdextension" THEN TeardownGDExtension
                            ELSE TeardownStandalone)
    /\ (program = "gdextension" /\ main_pc = "stop_return" /\ RunningTeardown) =>
         teardown = TeardownGDExtension
    /\ (program \in Standalone /\ main_pc = "exited" /\ exit_code = "0") =>
         teardown = TeardownStandalone
    /\ QuietAfterStop

\* a standalone program has run to its end and returned 0
C9_Witness ==
    /\ program = "apriltag_detector" /\ main_pc = "exited" /\ exit_code = "0"
    /\ teardown = TeardownStandalone /\ frame_count > max_frames

TraceRank(e) ==
    CASE e = "map" -> 1
      [] e = "frame" -> 2
      [] e = "detect" -> 3
      [] e = "publish" -> 4
      [] e = "unmap" -> 5
      [] e = "reuse" -> 6
      [] e = "requeue" -> 7

Count(seq, e) == Cardinality({k \in 1..Len(seq) : seq[k] = e})

\* C10: the callback maps the plane, builds the frame, runs detection,
\* publishes, unmaps, then reuses and requeues the request, in this order;
\* a mapped plane is unmapped exactly once before the request is reused, and
\* mapped memory is never read once unmapped or once the request is requeued.
C10_CallbackOrder ==
    /\ \A j, k \in 1..Len(cb_trace) :
          j < k => /\ TraceRank(cb_trace[j]) <= TraceRank(cb_trace[k])
                   /\ TraceRank(cb_trace[j]) = TraceRank(cb_trace[k])
                         => cb_trace[j] = "detect" /\ program = "test_libcamera_debug"
    /\ cb_memory = "mapped" <=>
          (Count(cb_trace, "map") = 1 /\ Count(cb_trace, "unmap") = 0)
    /\ Count(cb_trace, "unmap") <= Count(cb_trace, "map")
    /\ cb_pc \in {"idle", "entry", "count", "reuse", "requeue", "return"} =>
          cb_memory = "unmapped"
    /\ (program = "gdextension" /\ cb_pc = "reuse") =>
          cb_trace \in {<<>>, <<"map", "unmap">>,
                        <<"map", "frame", "detect", "publish", "unmap">>}
    /\ (program \in Standalone /\ cb_pc = "count" /\ cb_trace # <<>>) =>
          /\ cb_trace[1] = "map" /\ cb_trace[Len(cb_trace)] = "unmap"
          /\ Count(cb_trace, "detect") \in {0, DetectionsPerFrame(program)}
    /\ ~bad_read

\* a 16-bit frame went through every step and its request is queued again
C10_Witness ==
    /\ program = "gdextension" /\ cb_pc = "return"
    /\ cb_bytesused = Expected16bit(program)
    /\ cb_trace = <<"map", "frame", "detect", "publish", "unmap", "reuse", "requeue">>

\* load_camera_parameters, initialize_camera and start_camera have returned
\* true and stop_camera has not been called since
CaptureStarted == Capturing /\ is_initialized

\* C5: once the parameters are loaded and the camera is initialized and
\* started, and as long as stop_camera is not called, a frame is eventually
\* processed and published to latest_detections, again and again.
C5_NeverStalls == [](CaptureStarted => <>(cb_pc = "unlock" \/ ~CaptureStarted))

(***************************************************************************)
(* C11: set_video_feedback_enabled(false) switches the feedback off        *)
(* completely.  From its return until the next enabling call the detector  *)
(* retains no video frame and get_current_frame_texture returns a null     *)
(* texture, whatever the callback was doing when the call was made.        *)
(***************************************************************************)
C11_SwitchedOff ==
    /\ [](video_off => current_frame = NoFrame /\ video_frame_resized = NoFrame)
    /\ [][video_off /\ get_current_frame_texture => texture' = "null"]_vars

\* exactly one of every VIDEO_FRAME_SKIP consecutive frames counted with feedback
\* enabled goes on to be copied
C12_Spacing ==
    /\ [](video_gap < VIDEO_FRAME_SKIP)
    /\ [][store_frame_for_video_feedback /\ video_feedback_enabled =>
            ((cb_pc' = "store_lock") <=> (video_gap = VIDEO_FRAME_SKIP - 1))]_vars

(***************************************************************************)
(* C12: detection and display are decoupled.  Of every VIDEO_FRAME_SKIP    *)
(* consecutive frames received with feedback enabled exactly one is copied *)
(* and resized, so a display frame is there within VIDEO_FRAME_SKIP frames *)
(* of enabling; detection still runs on every frame; while feedback is     *)
(* disabled no frame is copied and video_frame_counter does not advance.   *)
(***************************************************************************)
C12_OneInTen ==
    /\ [](cb_pc = "store_copy" => video_feedback_enabled)
    /\ C12_Spacing
    /\ []((cb_pc \in {"munmap", "reuse", "requeue", "return"} /\ Decodable)
            => cb_detect_calls = 1)
    /\ [][store_frame_for_video_feedback /\ ~video_feedback_enabled =>
            cb_pc' = "detect" /\ UNCHANGED video_frame_counter]_vars

\* the dictionary of marker i of `scene': its id and corners, with the pose estimated
\* for the quadrilateral of the same index, or without a pose
Described(d, scene, i, estimated) ==
    /\ DOMAIN d = {"id", "rvec", "tvec", "corners"}
    /\ d.id = DetectIds(scene)[i]
    /\ d.corners = DetectCorners(scene)[i]
    /\ d.rvec = IF estimated THEN EstimateRvecs(DetectCorners(scene))[i] ELSE ZeroVector
    /\ d.tvec = IF estimated THEN EstimateTvecs(DetectCorners(scene))[i] ELSE ZeroVector

\* C13 as stated: get_latest_detections returns one dictionary per marker detected
\* in the published frame, in detector order, with exactly the keys id, rvec, tvec
\* and corners, and rvec and tvec are always the pose estimated for that marker.
C13_AlwaysEstimated ==
    (program = "gdextension" /\ main_pc = "get_return") =>
        \E scene \in Scenes :
            /\ Len(get_results) = Len(DetectIds(scene))
            /\ \A i \in 1..Len(get_results) : Described(get_results[i], scene, i, TRUE)

(***************************************************************************)
(* C13: get_latest_detections returns one dictionary per marker detected   *)
(* in the published frame, in detector order, each with exactly the keys   *)
(* id, rvec, tvec and corners.  rvec and tvec are the pose vectors         *)
(* estimated for the marker of the same index and id when the detector was *)
(* calibrated as the frame was processed, and both are the zero vector     *)
(* when it was not.                                                        *)
(***************************************************************************)
C13_Detections ==
    /\ [](program = "gdextension" /\ main_pc = "get_return" =>
            /\ get_results = ToDictionaries(latest_detections)
            /\ \E scene \in Scenes :
                 /\ Len(get_results) = Len(DetectIds(scene))
                 /\ \E estimated \in BOOLEAN :
                      /\ estimated => is_initialized
                      /\ \A i \in 1..Len(get_results) :
                           Described(get_results[i], scene, i, estimated))
    /\ [][process_frame_for_detection =>
            \E scene \in Scenes :
                /\ Len(cb_results') = Len(DetectIds(scene))
                /\ \A i \in 1..Len(cb_results') :
                     Described(ToDictionary(cb_results'[i]), scene, i,
                               is_initialized /\ camera_matrix # NoMat /\ dist_coeffs # NoMat)]_vars

\* a calibrated detector has published a frame with two markers and the caller holds
\* their dictionaries, poses included
C13_Witness ==
    /\ program = "gdextension" /\ main_pc = "get_return"
    /\ Len(get_results) = 2
    /\ get_results[1].id = 2 /\ get_results[2].id = 1
    /\ get_results[1].rvec = EstimateRvecs(DetectCorners(<<2, 1>>))[1]
    /\ get_results[2].tvec = EstimateTvecs(DetectCorners(<<2, 1>>))[2]

\* a JSON document with a calibration section that holds a camera_matrix of 3 rows of
\* 3 values and dist_coeffs of 4 rows of one value
WellFormedCalibration(file) ==
    /\ file.exists /\ file.parses
    /\ "calibration" \in DOMAIN file.data
    /\ {"camera_matrix", "dist_coeffs"} \subseteq DOMAIN file.data.calibration
    /\ Len(file.data.calibration.camera_matrix) = 3
    /\ \A i \in 1..3 : Len(file.data.calibration.camera_matrix[i]) = 3
    /\ Len(file.data.calibration.dist_coeffs) = 4
    /\ \A i \in 1..4 : Len(file.data.calibration.dist_coeffs[i]) = 1

(***************************************************************************)
(* C14: load_camera_parameters of the GDExtension returns true, and sets   *)
(* is_initialized, only for a JSON file whose calibration section holds a  *)
(* camera_matrix of 3 rows of 3 values and dist_coeffs of 4 single-value   *)
(* rows; for a missing file, a parse error or any other structure it       *)
(* returns false and leaves camera_matrix, dist_coeffs and is_initialized  *)
(* as they were.  It touches no camera and succeeds on a fresh detector.   *)
(***************************************************************************)
C14_LoadJson ==
    /\ \A file \in JsonFiles : LoadCameraParameters(file).ok <=> WellFormedCalibration(file)
    /\ [][load_camera_parameters =>
            /\ main_ret' =>
                  /\ is_initialized'
                  /\ \E file \in JsonFiles :
                       /\ WellFormedCalibration(file)
                       /\ camera_matrix' = Flatten(file.data.calibration.camera_matrix)
                       /\ dist_coeffs' = Flatten(file.data.calibration.dist_coeffs)
            /\ ~main_ret' => UNCHANGED <<camera_matrix, dist_coeffs, is_initialized>>
            /\ UNCHANGED <<camVars, libVars>>]_vars

\* a detector that was never given a camera has loaded a well-formed file
C14_Witness ==
    /\ program = "gdextension" /\ main_pc = "idle"
    /\ camera_manager = "null" /\ camera = "null" /\ ~init_ok
    /\ main_ret /\ is_initialized
    /\ camera_matrix = Flatten(CalibMatrix) /\ dist_coeffs = Flatten(CalibDist)

\* the numbers of the array that `key' names in a file: those on the key's line and
\* on the lines that continue it
RECURSIVE ArrayNumbers(_, _, _)
ArrayNumbers(lines, key, inside) ==
    IF lines = <<>> THEN 0
    ELSE LET line == Head(lines)
             in == IF line.key = key THEN TRUE
                   ELSE IF line.key = "none" THEN inside ELSE FALSE
         IN (IF in THEN line.numbers ELSE 0) + ArrayNumbers(Tail(lines), key, in)

ContainsArrays(file) ==
    /\ file.exists
    /\ ArrayNumbers(file.lines, "camera_matrix", FALSE) = 9
    /\ ArrayNumbers(file.lines, "dist_coeffs", FALSE) = 4

(***************************************************************************)
(* C15: load_camera_parameters of the standalone programs returns true and *)
(* marks the detector initialized for every file that contains a           *)
(* camera_matrix array of 9 numbers and a dist_coeffs array of 4 numbers,  *)
(* whatever the order of the keys and whatever other lines the file holds; *)
(* for every other file it returns false and the detector stays            *)
(* uninitialized, so that process_frame does nothing.                      *)
(***************************************************************************)
C15_LoadToml ==
    (program \in Standalone /\ main_pc # "main") =>
        /\ is_initialized <=> ContainsArrays(toml_file)
        /\ ~ContainsArrays(toml_file) => main_pc = "exited" /\ exit_code = "EXIT_FAILURE"
        /\ ~is_initialized => cb_detect_calls = 0 /\ cb_results = <<>>

(***************************************************************************)
(* C16: the exponential moving average filter returns its input unchanged  *)
(* on the first update after construction or after reset_tracking; every   *)
(* later update returns, per axis, alpha * new + (1 - alpha) * previous    *)
(* output with alpha = 0.4; the filter changes in no other call (a reset   *)
(* replaces it by a new one).                                              *)
(***************************************************************************)
C16_Ema ==
    /\ AlphaNum * 10 = 4 * AlphaDen
    /\ [][(updates' = updates + 1) =>
            IF updates = 0
            THEN filtered' = local_coordinates'
            ELSE \A axis \in 1..3 :
                   AlphaDen * filtered'[axis] =
                       AlphaNum * local_coordinates'[axis]
                       + (AlphaDen - AlphaNum) * <<filter.ema_x, filter.ema_y, filter.ema_z>>[axis]]_vars
    /\ [][filter' # filter => (updates' = updates + 1 \/ (updates' = 0 /\ filter' = NewFilter))]_vars

\* the filter has smoothed a second position into the first
C16_Witness ==
    /\ updates = 2 /\ filter.initialized
    /\ local_coordinates = <<Unit, 0 - 2 * Unit, 3 * Unit>>
    /\ filtered = <<0 - 2 * Unit, 0 - (Unit \div AlphaDen), (6 * Unit) \div AlphaDen>>

(***************************************************************************)
(* C17: in the demo application the camera can be started again after it   *)
(* was stopped.  After a start_camera that returned true and a stop_camera,*)
(* the next start_camera, with no other call between, returns true and the *)
(* camera runs.                                                            *)
(***************************************************************************)
C17_StartAgain ==
    program = "gdextension" =>
        /\ recent # "again_refused"
        /\ recent = "again_ok" => camera_running /\ main_ret

(***************************************************************************)
(* C18: the camera cannot be started unless initialization succeeded.  If  *)
(* the most recent initialize_camera returned false (no camera, invalid    *)
(* configuration, allocation or request failure), a following start_camera *)
(* returns false and camera_running stays false.                           *)
(***************************************************************************)
C18_FailedInit ==
    /\ []((program = "gdextension" /\ ~init_ok) => ~camera_running)
    /\ [][(start_camera /\ ~init_ok) =>
            (main_ret' = FALSE /\ main_pc' = "idle" /\ ~camera_running')]_vars

(***************************************************************************)
(* C19: after every initialize_camera that returns true the request list   *)
(* holds exactly one request per buffer allocated for the stream of the    *)
(* current camera, each bound to a distinct buffer, also when              *)
(* initialize_camera is called again without a stop_camera between.        *)
(***************************************************************************)
C19_OnePerBuffer ==
    [][(initialize_camera /\ main_ret') =>
        /\ Len(requests') = NumBuffers
        /\ \A i \in 1..Len(requests') : ~requests'[i].stale
        /\ \A i, j \in 1..Len(requests') :
              requests'[i].buffer = requests'[j].buffer => i = j
        /\ {requests'[i].buffer : i \in 1..Len(requests')} = 1..NumBuffers]_vars

(***************************************************************************)
(* C20: initialize_camera called while the camera is running returns false *)
(* and changes nothing: the camera manager, camera, allocator and request  *)
(* list in use are untouched and capture continues.                        *)
(***************************************************************************)
C20_InitWhileRunning ==
    /\ [](recent = "init_while_running" => camera_running /\ camera # "null")
    /\ [][(initialize_camera /\ camera_running) =>
            /\ main_ret' = FALSE
            /\ UNCHANGED <<camVars, libVars, cbVars, pubVars, detVars, videoVars>>]_vars

\* initialize_camera has been refused while every request circulates at the running camera
C20_Witness ==
    /\ program = "gdextension" /\ recent = "init_while_running" /\ main_pc = "idle"
    /\ ~main_ret /\ camera_running /\ camera = "running" /\ lifecycle = "on"
    /\ Len(cam_queue) = NumBuffers /\ requests = NewRequests(NumBuffers)

\* C21: current_instance is always null or a live AprilTagDetector, and a completed
\* request is processed by, and requeued to the camera of, the instance whose camera
\* produced it, whatever instances are created and destroyed.
C21_ServesOwner ==
    /\ current_instance = "null" \/ Live(current_instance)
    /\ serving.processed_by # "none" => serving.processed_by = serving.owner
    /\ serving.requeued_to # "none" => serving.requeued_to = serving.owner
    /\ serving.pc = "idle" /\ serving.owner # "none" /\ Live(serving.owner)
          /\ instances[serving.owner].camera_running
       => serving.requeued_to = serving.owner

\* a completed frame that cannot be decoded: its byte count is neither width*height
\* nor 2*width*height, or mmap returned MAP_FAILED
Undecodable ==
    /\ program = "gdextension" /\ cb_status = "complete"
    /\ \/ cb_bytesused \notin {Expected8bit(program), Expected16bit(program)}
       \/ cb_pc \in {"reuse", "requeue", "return"} /\ Count(cb_trace, "map") = 0

\* the callback of such a frame stores no video frame, runs no detection and assigns
\* nothing to latest_detections, and it goes on to Request::reuse
C22_NothingPublished ==
    /\ [](Undecodable =>
            /\ cb_pc \in {"entry", "mmap", "frame", "munmap", "reuse", "requeue", "return"}
            /\ cb_detect_calls = 0
            /\ Count(cb_trace, "frame") = 0 /\ Count(cb_trace, "publish") = 0
            /\ cb_pc \in {"requeue", "return"} => Count(cb_trace, "reuse") = 1)
    /\ [][(Undecodable \/ Undecodable') /\ cb_pc' # cb_pc =>
            UNCHANGED <<latest_detections, last_published, current_frame,
                        video_frame_resized>>]_vars

\* C22: a frame that cannot be decoded (mmap failed, or a byte count that is neither
\* width*height nor 2*width*height) leaves latest_detections and the stored video
\* frame unchanged, and its request is still reused and queued again.
C22_Undecodable ==
    /\ C22_NothingPublished
    /\ [](Capturing /\ Undecodable /\ cb_pc = "return" =>
            \E k \in 1..Len(cam_queue) : cam_queue[k] = cb_req)

\* the three conditions process_frame_for_detection tests before it estimates a pose
Calibrated == is_initialized /\ camera_matrix # NoMat /\ dist_coeffs # NoMat

(***************************************************************************)
(* C23: the pose of a marker is estimated only when is_initialized is true *)
(* and both the camera matrix and the distortion coefficients are set; in  *)
(* every other calibration state every detected marker is still reported,  *)
(* with rvec and tvec equal to (0,0,0), whatever the order of the calls of *)
(* load_camera_parameters, set_camera_matrix, set_distortion_coefficients. *)
(***************************************************************************)
C23_PoseOnlyCalibrated ==
    /\ [][process_frame_for_detection =>
            \E scene \in Scenes :
                /\ Len(cb_results') = Len(DetectIds(scene))
                /\ \A i \in 1..Len(cb_results') :
                     /\ cb_results'[i].marker_id = DetectIds(scene)[i]
                     /\ cb_results'[i].corners = DetectCorners(scene)[i]
                     /\ ~Calibrated => /\ cb_results'[i].rvec = ZeroVector
                                       /\ cb_results'[i].tvec = ZeroVector
                     /\ cb_results'[i].rvec # ZeroVector \/ cb_results'[i].tvec # ZeroVector
                           => Calibrated]_vars
    /\ [](\A i \in 1..Len(latest_detections) :
             latest_detections[i].rvec # ZeroVector \/ latest_detections[i].tvec # ZeroVector
                => Calibrated)

\* set_camera_matrix was called and set_distortion_coefficients was not: two markers
\* are published, both without a pose
C23_Witness ==
    /\ is_initialized /\ camera_matrix # NoMat /\ dist_coeffs = NoMat
    /\ Len(latest_detections) = 2
    /\ \A i \in 1..2 : /\ latest_detections[i].rvec = ZeroVector
                        /\ latest_detections[i].tvec = ZeroVector
                        /\ latest_detections[i].corners = CornersOf(latest_detections[i].marker_id)

\* two Arrays hold the same numbers in the same order
SameValues(a, b) == Len(a) = Len(b) /\ \A i \in 1..Len(a) : a[i].value = b[i].value

\* the calibration a call of each setter leaves, as a function of the one it finds
Calibration == [is_initialized |-> is_initialized, camera_matrix |-> camera_matrix,
                dist_coeffs |-> dist_coeffs]

SetCameraMatrix(det, matrix) ==
    IF Len(matrix) # 9 THEN det
    ELSE [det EXCEPT !.camera_matrix = [i \in 1..9 |-> ToDouble(matrix[i])],
                     !.is_initialized = TRUE]

SetDistortionCoefficients(det, coeffs) ==
    IF Len(coeffs) # 4 THEN det
    ELSE [det EXCEPT !.dist_coeffs = [i \in 1..4 |-> ToDouble(coeffs[i])]]

(***************************************************************************)
(* C24: set_camera_matrix with 9 values followed by get_camera_matrix      *)
(* returns the same 9 values in the same order, and likewise the 4 values  *)
(* of set_distortion_coefficients and get_distortion_coefficients; an      *)
(* Array of any other size is rejected and leaves the calibration and      *)
(* is_initialized unchanged; the getters return an empty Array before any  *)
(* calibration is set; the two setters commute.                            *)
(***************************************************************************)
C24_Accessors ==
    \* a detector just constructed holds no calibration
    /\ Calibration = [is_initialized |-> FALSE, camera_matrix |-> NoMat, dist_coeffs |-> NoMat]
    \* what a getter called after the setter has returned finds
    /\ [][set_return =>
            /\ UNCHANGED detVars
            /\ main_op = "set_camera_matrix" =>
                  /\ Calibration = SetCameraMatrix(Calibration, array_arg)
                  /\ Len(array_arg) = 9 =>
                        SameValues(GetCameraMatrix(camera_matrix), array_arg)
            /\ main_op = "set_distortion_coefficients" =>
                  /\ Calibration = SetDistortionCoefficients(Calibration, array_arg)
                  /\ Len(array_arg) = 4 =>
                        SameValues(GetDistortionCoefficients(dist_coeffs), array_arg)]_vars
    /\ [][get_camera_matrix =>
            /\ array_result' = GetCameraMatrix(camera_matrix)
            /\ camera_matrix = NoMat => array_result' = <<>>
            /\ UNCHANGED detVars]_vars
    /\ [][get_distortion_coefficients =>
            /\ array_result' = GetDistortionCoefficients(dist_coeffs)
            /\ dist_coeffs = NoMat => array_result' = <<>>
            /\ UNCHANGED detVars]_vars
    \* a rejected Array: the call returns at once
    /\ [][/\ main_pc = "idle" /\ main_pc' # "idle"
          /\ \/ main_op' = "set_camera_matrix" /\ Len(array_arg') # 9
             \/ main_op' = "set_distortion_coefficients" /\ Len(array_arg') # 4
          => main_pc' = "set_return" /\ UNCHANGED detVars]_vars
    \* each setter touches its own fields only
    /\ [][main_op' = "set_camera_matrix" => UNCHANGED dist_coeffs]_vars
    /\ [][main_op' = "set_distortion_coefficients" =>
            UNCHANGED <<camera_matrix, is_initialized>>]_vars
    /\ [](\A matrix, coeffs \in ArraysGiven :
             SetDistortionCoefficients(SetCameraMatrix(Calibration, matrix), coeffs)
               = SetCameraMatrix(SetDistortionCoefficients(Calibration, coeffs), matrix))

\* get_camera_matrix has returned the 9 ints given last, as floats, after the
\* coefficients were set and another matrix before
C24_Witness ==
    /\ main_op = "get_camera_matrix" /\ main_pc = "idle"
    /\ Len(array_result) = 9
    /\ \A i \in 1..9 : array_result[i] = Variant("FLOAT", 100 - i)
    /\ dist_coeffs = <<4, 3, 2, 1>>

(***************************************************************************)
(* C25: the standalone programs terminate.  Detection runs on at most      *)
(* max_frames frames; once frame_count has reached max_frames no request   *)
(* is queued again and no further frame is processed; and as the camera    *)
(* keeps completing requests, the wait loop of main is left and the        *)
(* cleanup sequence runs to its end.                                       *)
(***************************************************************************)
C25_Terminates ==
    \* the frame in detection is at most the max_frames-th one counted
    /\ [](cb_pc \in {"mmap", "process", "munmap"} => frame_count < max_frames)
    /\ [](cb_detect_calls > 0 =>
            frame_count + (IF cb_pc \in {"munmap", "count"} THEN 1 ELSE 0) <= max_frames)
    /\ [][cb_detect_calls' > cb_detect_calls =>
            cb_pc = "process" /\ cb_detect_calls = 0 /\ frame_count < max_frames]_vars
    /\ [][frame_count' # frame_count => frame_count' = frame_count + 1 /\ cb_pc = "count"]_vars
    \* with max_frames counted the callback neither processes nor queues
    /\ [](frame_count >= max_frames => cb_pc \in {"idle", "entry", "count", "return"})
    /\ [][frame_count >= max_frames /\ main_pc \notin {"main_start", "main_queue"} =>
            Len(cam_queue') <= Len(cam_queue)]_vars
    \* the wait loop ends, and so does the cleanup
    /\ (main_pc = "main_wait") ~>
          (main_pc = "exited" /\ exit_code = "0" /\ teardown = TeardownStandalone
           /\ frame_count >= max_frames /\ camera = "null" /\ cb_pc = "idle")
    /\ <>[](main_pc = "exited")

\* main is in its wait loop and the callback detects markers in the last frame it
\* will process
C25_Witness ==
    /\ program \in Standalone /\ main_pc = "main_wait"
    /\ frame_count = max_frames - 1 /\ cb_pc = "munmap" /\ cb_detect_calls > 0

\* what main has acquired when the check at `pc' fails, in the order of release
AcquiredAt(pc) ==
    CASE pc = "main" -> <<"delete_detector">>
      [] pc = "main_manager" -> <<"manager_stop", "delete_detector">>
      [] pc = "main_configure" -> <<"camera_release", "manager_stop", "delete_detector">>
      [] pc \in {"main_allocate", "main_requests"} ->
            <<"free_allocator", "camera_release", "manager_stop", "delete_detector">>
      [] OTHER -> <<>>

IsResource(e) == e \in {"free_allocator", "camera_release", "manager_stop", "delete_detector"}

(***************************************************************************)
(* C26: every failure exit of main (parameters not loaded, no camera,      *)
(* invalid configuration, buffer allocation, request creation, addBuffer)  *)
(* returns EXIT_FAILURE after it has released exactly what was acquired:   *)
(* the allocator is deleted if it was created, the camera released if it   *)
(* was acquired, the camera manager stopped if it was started, and the     *)
(* detector deleted; the camera is never started on such a path.           *)
(***************************************************************************)
C26_FailureExits ==
    /\ [][exit_code = "none" /\ exit_code' = "EXIT_FAILURE" /\ program \in Standalone =>
            /\ main_pc \in {"main", "main_manager", "main_configure", "main_allocate",
                             "main_requests"}
            /\ main_pc' = "exited"
            /\ SelectSeq(teardown', IsResource) = AcquiredAt(main_pc)
            \* what the state before the failure holds is released
            /\ camera_manager = "started" => Count(teardown', "manager_stop") = 1
            /\ camera \in {"acquired", "configured"} => Count(teardown', "camera_release") = 1
            /\ allocator = "allocated" => Count(teardown', "free_allocator") = 1
            \* and the objects are in the state the releases leave
            /\ detector' = "deleted"
            /\ allocator' = "null"
            /\ camera' = (IF Count(teardown', "camera_release") = 1 THEN "released" ELSE "null")
            /\ camera_manager' = (IF Count(teardown', "manager_stop") = 1 THEN "stopped"
                                   ELSE "null")]_vars
    /\ [](program \in Standalone /\ exit_code = "EXIT_FAILURE" =>
            /\ main_pc = "exited"
            /\ connected = 0 /\ cam_queue = <<>> /\ cb_pc = "idle" /\ frame_count = 0
            /\ Count(teardown, "camera_stop") = 0)
    /\ [](program \in Standalone /\ connected > 0 => exit_code # "EXIT_FAILURE")
    /\ [](program \in Standalone /\ main_pc = "exited" => exit_code \in {"0", "EXIT_FAILURE"})

\* addBuffer or createRequest failed in the debug program: everything acquired was
\* released and main returned EXIT_FAILURE
C26_Witness ==
    /\ program = "test_libcamera_debug" /\ main_pc = "exited" /\ exit_code = "EXIT_FAILURE"
    /\ teardown = <<"free_allocator", "camera_release", "manager_stop", "delete_detector",
                    "free_requests">>
    /\ camera = "released" /\ camera_manager = "stopped" /\ allocator = "null"

====
